---- MODULE Spec2Model ----
(***************************************************************************)
(* Model of the ADT client engine of vibing-steampunk: the edit workflows  *)
(* (pkg/adt/workflows.go), the safety gate (pkg/adt/safety.go), the        *)
(* transport-management operations (pkg/adt/transport.go) and the ZIP      *)
(* deployment handler (internal/mcp/handlers_deploy.go).                   *)
(*                                                                         *)
(* Every HTTP request the client issues is appended to `requests` together *)
(* with its outcome, so that "which requests were issued, in which order"  *)
(* is a property of the state.  Each subsystem has its own specification   *)
(* (WorkflowSpec, TransportSpec, DeploySpec) over the shared variables.    *)
(* The WebSocket client of the debugger and report services                *)
(* (pkg/adt/amdp_websocket.go) has its state in `ws`, the parser of ABAP   *)
(* source files (pkg/adt/fileparser.go) in `parse`.                        *)
(***************************************************************************)
EXTENDS Integers, Sequences, FiniteSets, TLC

VARIABLES
    requests,   \* log of the requests handed to c.transport.Request, with outcome
    server,     \* what the SAP server holds: the stored source, the edit lock
    wf,         \* workflow: which workflow function is executing ("none" before the call)
    pc,         \* workflow: the statement the workflow is at
    result,     \* workflow: the *Result struct the workflow returns
    lock,       \* workflow: the *LockResult of LockObject (NoLock until it succeeds)
    deferred,   \* workflow: whether the deferred cleanup function is registered
    safety,     \* the client's SafetyConfig (c.config.Safety)
    ret,        \* safety gate / transport operation: the call made and what it returned
    dep,        \* DeployZip handler: its arguments, locals, position and result
    ws,         \* WebSocket client: the AMDPWebSocketClient, its goroutines and callers
    parse       \* file parser: the file, the function executing, what it returned

wfVars == <<wf, pc, result, lock, deferred>>

gateVars == <<safety, ret>>

\* The variables of the HTTP client, left alone by the WebSocket client.
adtVars == <<requests, server, wf, pc, result, lock, deferred, safety, ret, dep>>

vars == <<requests, server, wf, pc, result, lock, deferred, safety, ret, dep, ws, parse>>

(***************************************************************************)
(* Bounds                                                                  *)
(***************************************************************************)
\* Longest list of diagnostics a syntax check returns.
MaxDiags == 2

\* Longest AllowedOps / DisallowedOps string of a safety configuration.
MaxOpsLen == 1

\* Largest number of files in a deployed archive.
MaxFiles == 3

\* Longest AllowedPackages list of a safety configuration.
MaxPatterns == 2

\* Largest number of inactive objects in a package when its activation starts.
MaxInactive == 6

\* Most <msg> elements and most <entry> elements of an activation response.
MaxMessages == 2
MaxEntries == 2

\* Connections a WebSocket client dials.
MaxConns == 2

\* Largest seq of a chunk and largest totalChunks of a streamed export.
MaxChunks == 3

\* Most lines of a source file handed to ParseABAPFile.
MaxLines == 2

(***************************************************************************)
(* Transport                                                               *)
(***************************************************************************)
\* c.transport.Request: one HTTP request to the server; `ok` is whether it
\* returned without error.  The log keeps the operation and the lock handle
\* the request carries.
Request(log, op, handle, ok) ==
    Append(log, [op |-> op, handle |-> handle, ok |-> ok])

Issued(op) == {i \in DOMAIN requests : requests[i].op = op}

(***************************************************************************)
(* Strings.  A Go string is a sequence of one-character strings.           *)
(***************************************************************************)
LowerLetters ==
    <<"a", "b", "c", "d", "e", "f", "g", "h", "i", "j", "k", "l", "m",
      "n", "o", "p", "q", "r", "s", "t", "u", "v", "w", "x", "y", "z">>
UpperLetters ==
    <<"A", "B", "C", "D", "E", "F", "G", "H", "I", "J", "K", "L", "M",
      "N", "O", "P", "Q", "R", "S", "T", "U", "V", "W", "X", "Y", "Z">>

\* The characters in byte order, for the comparison of strings.
Runes == <<"$", "*", "0", "1", "4", "9">> \o UpperLetters \o <<"_">> \o LowerLetters

RuneRank(c) == CHOOSE i \in DOMAIN Runes : Runes[i] = c

UpperRune(c) ==
    IF \E i \in DOMAIN LowerLetters : LowerLetters[i] = c
    THEN UpperLetters[CHOOSE i \in DOMAIN LowerLetters : LowerLetters[i] = c]
    ELSE c

\* strings.ToUpper
ToUpper(s) == [i \in DOMAIN s |-> UpperRune(s[i])]

\* strings.HasPrefix
HasPrefix(s, prefix) ==
    Len(prefix) <= Len(s) /\ SubSeq(s, 1, Len(prefix)) = prefix

\* strings.HasSuffix
HasSuffix(s, suffix) ==
    Len(suffix) <= Len(s) /\ SubSeq(s, Len(s) - Len(suffix) + 1, Len(s)) = suffix

\* strings.TrimSuffix
TrimSuffix(s, suffix) ==
    IF HasSuffix(s, suffix) THEN SubSeq(s, 1, Len(s) - Len(suffix)) ELSE s

\* strings.ContainsRune
ContainsRune(s, r) == \E i \in DOMAIN s : s[i] = r

\* strings.Contains
Contains(s, substr) ==
    \E i \in 0..(Len(s) - Len(substr)) : SubSeq(s, i + 1, i + Len(substr)) = substr

\* strings.ContainsAny
ContainsAny(s, chars) == \E i \in DOMAIN s : ContainsRune(chars, s[i])

\* strings.ReplaceAll(s, old, "") for a one-character old.
RemoveAll(s, old) == SelectSeq(s, LAMBDA c : c # old)

\* a < b on strings (byte-wise lexicographic).
RECURSIVE StringLess(_, _)
StringLess(a, b) ==
    IF b = <<>> THEN FALSE
    ELSE IF a = <<>> THEN TRUE
    ELSE IF Head(a) # Head(b) THEN RuneRank(Head(a)) < RuneRank(Head(b))
    ELSE StringLess(Tail(a), Tail(b))

(***************************************************************************)
(* Safety gate: SafetyConfig and its checks                                *)
(***************************************************************************)
OpRead == "R"
OpSearch == "S"
OpQuery == "Q"
OpFreeSQL == "F"
OpCreate == "C"
OpUpdate == "U"
OpDelete == "D"
OpActivate == "A"
OpTest == "T"
OpLock == "L"
OpIntelligence == "I"
OpWorkflow == "W"
OpTransport == "X"

OperationTypes ==
    {OpRead, OpSearch, OpQuery, OpFreeSQL, OpCreate, OpUpdate, OpDelete,
     OpActivate, OpTest, OpLock, OpIntelligence, OpWorkflow, OpTransport}

\* The nil error.
Nil == ""

\* Transport numbers used as arguments and in AllowedTransports.
DEVK900001 == <<"D", "E", "V", "K", "9", "0", "0", "0", "0", "1">>
devk900001 == <<"d", "e", "v", "k", "9", "0", "0", "0", "0", "1">>
A4HK900110 == <<"A", "4", "H", "K", "9", "0", "0", "1", "1", "0">>

\* SafetyConfig{} with no restriction (ReadOnly false, AllowedOps "").
UnrestrictedSafetyConfig ==
    [ReadOnly |-> FALSE, BlockFreeSQL |-> FALSE,
     AllowedOps |-> <<>>, DisallowedOps |-> <<>>, AllowedPackages |-> <<>>,
     DryRun |-> FALSE, EnableTransports |-> FALSE, TransportReadOnly |-> FALSE,
     AllowedTransports |-> <<>>]

\* The operation-type strings a configuration's allow-list or deny-list holds.
OpStrings == UNION {[1..n -> {OpRead, OpWorkflow, OpTransport}] : n \in 0..MaxOpsLen}

\* The AllowedTransports lists of the configurations: none, or an exact number and a wildcard.
TransportLists == {<<>>, << A4HK900110, <<"d", "e", "v", "*">> >>}

\* The safety configurations the client can be constructed with.
SafetyConfigs ==
    [ReadOnly : BOOLEAN, BlockFreeSQL : BOOLEAN,
     AllowedOps : OpStrings, DisallowedOps : OpStrings, AllowedPackages : {<<>>},
     DryRun : BOOLEAN, EnableTransports : BOOLEAN, TransportReadOnly : BOOLEAN,
     AllowedTransports : TransportLists]

\* IsOperationAllowed with "CDUA" as the write operations (Workflow left out).
IsOperationAllowed_WorkflowNotWrite(s, op) ==
    IF s.DryRun THEN TRUE
    ELSE IF s.ReadOnly /\ ContainsRune(<<"C", "D", "U", "A">>, op) THEN FALSE
    ELSE IF s.BlockFreeSQL /\ op = OpFreeSQL THEN FALSE
    ELSE IF op = OpTransport /\ ~s.EnableTransports THEN FALSE
    ELSE IF s.DisallowedOps # <<>> /\ ContainsRune(s.DisallowedOps, op) THEN FALSE
    ELSE IF s.AllowedOps # <<>> /\ ~ContainsRune(s.AllowedOps, op) THEN FALSE
    ELSE TRUE

\* IsOperationAllowed with the allow-list read before the deny-list: a class
\* named in the allow-list is allowed.
IsOperationAllowed_AllowFirst(s, op) ==
    IF s.DryRun THEN TRUE
    ELSE IF s.ReadOnly /\ ContainsRune(<<"C", "D", "U", "A", "W">>, op) THEN FALSE
    ELSE IF s.BlockFreeSQL /\ op = OpFreeSQL THEN FALSE
    ELSE IF op = OpTransport /\ ~s.EnableTransports THEN FALSE
    ELSE IF s.AllowedOps # <<>> /\ ContainsRune(s.AllowedOps, op) THEN TRUE
    ELSE IF s.DisallowedOps # <<>> /\ ContainsRune(s.DisallowedOps, op) THEN FALSE
    ELSE IF s.AllowedOps # <<>> THEN FALSE
    ELSE TRUE

\* IsOperationAllowed: whether an operation type is allowed by the config.
IsOperationAllowed(s, op) ==
    IF s.DryRun THEN TRUE
    ELSE IF s.ReadOnly /\ ContainsRune(<<"C", "D", "U", "A", "W">>, op) THEN FALSE
    ELSE IF s.BlockFreeSQL /\ op = OpFreeSQL THEN FALSE
    ELSE IF op = OpTransport /\ ~s.EnableTransports THEN FALSE
    ELSE IF s.DisallowedOps # <<>> /\ ContainsRune(s.DisallowedOps, op) THEN FALSE
    ELSE IF s.AllowedOps # <<>> /\ ~ContainsRune(s.AllowedOps, op) THEN FALSE
    ELSE TRUE

\* CheckOperation: the error for an operation that is not allowed, or nil.
CheckOperation(s, op) ==
    IF ~IsOperationAllowed(s, op) THEN "blocked by safety configuration" ELSE Nil

\* Client.checkSafety: the operation-class gate of the client.
checkSafety(s, op) == CheckOperation(s, op)

\* IsPackageAllowed without the upper-casing of the package and the pattern.
IsPackageAllowed_CaseSensitive(s, pkg) ==
    IF Len(s.AllowedPackages) = 0 THEN TRUE
    ELSE \E i \in DOMAIN s.AllowedPackages :
            LET allowed == s.AllowedPackages[i]
            IN  \/ allowed = pkg
                \/ /\ HasSuffix(allowed, <<"*">>)
                   /\ HasPrefix(pkg, TrimSuffix(allowed, <<"*">>))

\* IsPackageAllowed: whether operations on a given package are allowed.
IsPackageAllowed(s, pkg) ==
    IF Len(s.AllowedPackages) = 0 THEN TRUE
    ELSE \E i \in DOMAIN s.AllowedPackages :
            LET allowed == ToUpper(s.AllowedPackages[i])
            IN  \/ allowed = ToUpper(pkg)
                \/ /\ HasSuffix(allowed, <<"*">>)
                   /\ HasPrefix(ToUpper(pkg), TrimSuffix(allowed, <<"*">>))

\* CheckPackage: the error for a package that is not allowed, or nil.
CheckPackage(s, pkg) ==
    IF ~IsPackageAllowed(s, pkg) THEN "package blocked by safety configuration" ELSE Nil

\* IsTransportAllowed: whether operations on a given transport are allowed.
IsTransportAllowed(s, transport) ==
    IF ~s.EnableTransports THEN FALSE
    ELSE IF Len(s.AllowedTransports) = 0 THEN TRUE
    ELSE \E i \in DOMAIN s.AllowedTransports :
            LET allowed == ToUpper(s.AllowedTransports[i])
            IN  \/ allowed = ToUpper(transport)
                \/ /\ HasSuffix(allowed, <<"*">>)
                   /\ HasPrefix(ToUpper(transport), TrimSuffix(allowed, <<"*">>))

\* CheckTransport without the check that transports are enabled.
CheckTransport_NoOptIn(s, transport, isWrite) ==
    IF isWrite /\ s.TransportReadOnly
    THEN "transport read-only mode enabled"
    ELSE IF /\ transport # <<>> /\ transport # <<"*">>
            /\ Len(s.AllowedTransports) > 0
            /\ ~IsTransportAllowed(s, transport)
    THEN "transport blocked by safety configuration"
    ELSE Nil

\* CheckTransport: the error for a transport operation that is not allowed, or nil.
CheckTransport(s, transport, isWrite) ==
    IF ~s.EnableTransports
    THEN "transports not enabled"
    ELSE IF isWrite /\ s.TransportReadOnly
    THEN "transport read-only mode enabled"
    ELSE IF /\ transport # <<>> /\ transport # <<"*">>
            /\ Len(s.AllowedTransports) > 0
            /\ ~IsTransportAllowed(s, transport)
    THEN "transport blocked by safety configuration"
    ELSE Nil

\* ret before any call.
NoCall == [op |-> "none", arg |-> <<>>, kind |-> "none", err |-> Nil]

\* What an operation returns: kind is "blocked" (the safety check's error),
\* "invalid" (an argument rejected), "failed" (the request's error) or "ok".
Returned(op, arg, kind, err) == [op |-> op, arg |-> arg, kind |-> kind, err |-> err]

(***************************************************************************)
(* Deployment plan: the files of an archive, their order, the plan         *)
(***************************************************************************)
INTF == <<"I", "N", "T", "F">>
DOMA == <<"D", "O", "M", "A">>
DTEL == <<"D", "T", "E", "L">>
TABL == <<"T", "A", "B", "L">>
DDLS == <<"D", "D", "L", "S">>
CLAS == <<"C", "L", "A", "S">>
PROG == <<"P", "R", "O", "G">>
FUGR == <<"F", "U", "G", "R">>
FUNC == <<"F", "U", "N", "C">>
BDEF == <<"B", "D", "E", "F">>
SRVD == <<"S", "R", "V", "D">>
SRVB == <<"S", "R", "V", "B">>

\* typePriority, with 99 for a type that is not in the map.
TypePriority(t) ==
    CASE t = INTF -> 1 [] t = DOMA -> 2 [] t = DTEL -> 3 [] t = TABL -> 4
      [] t = DDLS -> 5 [] t = CLAS -> 6 [] t = PROG -> 7 [] t = FUGR -> 8
      [] t = FUNC -> 9 [] t = BDEF -> 10 [] t = SRVD -> 11 [] t = SRVB -> 12
      [] OTHER -> 99

\* includePriority; a key that is not in the map reads as 0.
IncludePriority(inc) ==
    CASE inc = "" -> 1 [] inc = "locals_def" -> 2 [] inc = "locals_imp" -> 3
      [] inc = "macros" -> 4 [] inc = "testclasses" -> 5 [] OTHER -> 0

\* The keys of objectTypeMapping: the types deployable through ADT.
DeployableTypes == {PROG, CLAS, INTF, DDLS, BDEF, SRVD}

\* An ABAPFile as UnzipInMemory returns it (content left out).
ABAPFile(type, name, include, isXML) ==
    [ObjectType |-> type, ObjectName |-> name, IncludeType |-> include, IsXML |-> isXML]

\* The files archives are made of.
FileUniverse ==
    {ABAPFile(INTF, <<"Z", "B">>, "", FALSE),
     ABAPFile(CLAS, <<"Z", "A">>, "", FALSE),
     ABAPFile(CLAS, <<"Z", "A">>, "testclasses", FALSE),
     ABAPFile(CLAS, <<"Z", "A">>, "", TRUE),
     ABAPFile(DOMA, <<"Z", "D">>, "", TRUE),
     ABAPFile(FUGR, <<"Z", "B">>, "", FALSE),
     ABAPFile(FUGR, <<"Z", "A">>, "", TRUE)}

\* The file lists of the archives.  The files of an archive differ in type,
\* name, include or kind, so the stable sort yields the same order from
\* every order of the list and the list is kept as a set.
Archives == {a \in SUBSET FileUniverse : Cardinality(a) <= MaxFiles}

\* The comparison function of DeploymentOrder's sort.
FileLess(fi, fj) ==
    IF fi.IsXML # fj.IsXML THEN ~fi.IsXML
    ELSE IF TypePriority(fi.ObjectType) # TypePriority(fj.ObjectType)
    THEN TypePriority(fi.ObjectType) < TypePriority(fj.ObjectType)
    ELSE IF fi.ObjectName # fj.ObjectName
    THEN StringLess(fi.ObjectName, fj.ObjectName)
    ELSE IncludePriority(fi.IncludeType) < IncludePriority(fj.IncludeType)

\* DeploymentOrder: the files sorted by FileLess.
RECURSIVE DeploymentOrder(_)
DeploymentOrder(files) ==
    IF files = {} THEN <<>>
    ELSE LET first == CHOOSE f \in files : \A g \in files \ {f} : ~FileLess(g, f)
         IN  <<first>> \o DeploymentOrder(files \ {first})

\* The loop of CreateDeploymentPlan: one object per type/name key, at the
\* position of the key's first file in the sorted list.
RECURSIVE PlanObjects(_, _)
PlanObjects(sorted, added) ==
    IF sorted = <<>> THEN <<>>
    ELSE LET f == Head(sorted)
             key == <<f.ObjectType, f.ObjectName>>
         IN  IF key \in added
             THEN PlanObjects(Tail(sorted), added)
             ELSE <<[Type |-> f.ObjectType, Name |-> f.ObjectName]>>
                      \o PlanObjects(Tail(sorted), added \cup {key})

\* CreateDeploymentPlan: plan.Objects.
CreateDeploymentPlan(files) == PlanObjects(DeploymentOrder(files), {})

\* GetDependencyZIP's result: nil, or the bytes of an archive (valid: whether
\* they parse as a ZIP).
NilZip == [nil |-> TRUE, valid |-> FALSE, files |-> {}]

\* GetDependencyZIP.  The function returns nil for every name as long as no
\* archive is embedded; with the archives embedded (the commented-out
\* returns) it returns the archive for the two known names.  Both builds
\* are covered.
GetDependencyZIP(source) ==
    IF source \in {"abapgit-standalone", "abapgit-dev"}
    THEN {NilZip} \cup {[nil |-> FALSE, valid |-> FALSE, files |-> {}]}
                  \cup {[nil |-> FALSE, valid |-> TRUE, files |-> a] : a \in Archives}
    ELSE {NilZip}

\* The handler's result before it returned.
NoToolResult == [isError |-> FALSE, text |-> "none"]

\* newToolResultError(msg)
newToolResultError(msg) == [isError |-> TRUE, text |-> msg]

\* mcp.NewToolResultText(msg)
NewToolResultText(msg) == [isError |-> FALSE, text |-> msg]

\* The handler before the call.
NoDeploy ==
    [pc |-> "idle", args |-> [source |-> "", package |-> <<>>],
     dryRun |-> FALSE, package |-> <<>>,
     deployable |-> <<>>, skipped |-> <<>>, i |-> 0, lockHandle |-> "",
     createErrs |-> <<>>,
     createSuccess |-> 0, createSkipped |-> 0, createFailed |-> 0,
     uploadSuccess |-> 0, uploadFailed |-> 0,
     inactive |-> 0, inactivePrev |-> 0, passes |-> 0, activationError |-> FALSE,
     out |-> NoToolResult]

(***************************************************************************)
(* Iterative activation: ActivatePackageIterative                          *)
(***************************************************************************)
\* The passes handleDeployZip allows ActivatePackageIterative.
MaxPasses == 5

\* The iteration before its first pass over a package with n inactive
\* objects.  The still-inactive set is kept as its size: a pass only
\* activates objects, so the set is unchanged exactly when its size is.
NewIteration(n) == [passes |-> 0, inactive |-> n, prev |-> n, stopped |-> FALSE]

\* One pass with the limit on the number of passes left out.
ActivationPass_NoLimit(it, maxPasses, left) ==
    [passes |-> it.passes + 1, inactive |-> left, prev |-> it.inactive,
     stopped |-> left = 0 \/ (it.passes >= 1 /\ left = it.inactive)]

\* One pass: the package is activated, `left` objects are still inactive.
\* The iteration stops when none is left, when the still-inactive set is
\* the one the previous pass left, or when maxPasses passes have run.
ActivationPass(it, maxPasses, left) ==
    [passes |-> it.passes + 1, inactive |-> left, prev |-> it.inactive,
     stopped |-> \/ left = 0
                 \/ it.passes >= 1 /\ left = it.inactive
                 \/ it.passes + 1 >= maxPasses]

(***************************************************************************)
(* WebSocket client: AMDPWebSocketClient, its messages and goroutines      *)
(***************************************************************************)
\* c.conn == nil; the connections a client dials are 1, 2, ...
NilConn == 0

Conns == 1..MaxConns

\* The goroutines that send requests on the client concurrently.
Callers == {"g1", "g2"}

\* fmt.Sprintf("amdp_%d", n), fmt.Sprintf("report_%d", n): the id of a
\* request is its domain's prefix and the number.
Sprintf(prefix, n) == [prefix |-> prefix, n |-> n]

NoID == Sprintf("", 0)

\* The id of the welcome message, and the id of a message the server sends
\* on its own (a debugger event): an id no request has.
WelcomeID == Sprintf("welcome", 0)

EventID == Sprintf("event", 0)

\* What a message of the server is: the reply that ends a request
\* (complete, error), a message on the way to it (progress, chunk), the
\* welcome, or an asynchronous debugger event.
TerminalTypes == {"complete", "error"}

ResponseTypes == {"progress", "chunk"} \cup TerminalTypes

EventKinds == {"on_break", "on_toggle_breakpoints", "on_execution_end"}

\* WSResponse: ID, and the kind of message its Data holds.
WSResponse(id, type) == [ID |-> id, type |-> type]

NoResponse == WSResponse(NoID, "none")

\* A goroutine that has not called sendRequest or sendReportRequest.
\*   fn: the function called; id: the id of its message; conn: the
\*   connection it writes to; respCh: the contents of its reply channel (capacity 1); resp, err:
\*   what the function returned.
IdleCaller ==
    [pc |-> "idle", fn |-> "none", id |-> NoID, conn |-> NilConn,
     respCh |-> <<>>, resp |-> NoResponse, err |-> Nil]

\* Connect before its first call.
NoConnect == [pc |-> "idle", conn |-> NilConn, err |-> Nil]

\* NewAMDPWebSocketClient: the client after construction, with the
\* environment of a run.
\*   conn, msgID, pending, welcomeCh, Events, isActive, sessionID: the fields;
\*   mu: c.mu is held by a Connect that returned without releasing it;
\*   dialed: connections dialed so far; closed: connections closed by either
\*   end; rpc, rconn: where each readMessages goroutine is (the goroutine
\*   started for connection g) and the conn it reads;
\*   welcomed: connections on which the welcome was read; lastEvent: kind of
\*   the debugger event read last; connect: the call of Connect;
\*   callers: the goroutines that send requests.
NewAMDPWebSocketClient ==
    [conn |-> NilConn, mu |-> FALSE, msgID |-> 0, pending |-> {},
     welcomeCh |-> 0, Events |-> <<>>, isActive |-> FALSE, sessionID |-> Nil,
     dialed |-> 0, closed |-> {},
     rpc |-> [g \in Conns |-> "none"], rconn |-> [g \in Conns |-> NilConn],
     welcomed |-> {}, lastEvent |-> "none",
     connect |-> NoConnect,
     callers |-> [r \in Callers |-> IdleCaller]]

\* The messages the server sends on its own: the welcome and the debugger
\* events.
ServerMessages ==
    {WSResponse(WelcomeID, "welcome")} \cup {WSResponse(EventID, k) : k \in EventKinds}

\* The messages the server sends for the requests made so far.
Replies ==
    {WSResponse(Sprintf(p, n), t) :
       p \in {"amdp", "report"}, n \in 1..ws.msgID, t \in ResponseTypes}

\* Route without delete(c.pending, resp.ID) after the delivery.
Route_NoDelete(c, conn, m) ==
    IF m.ID \in c.pending
    THEN [c EXCEPT !.callers = [r \in Callers |->
                                  IF c.callers[r].id = m.ID
                                  THEN [c.callers[r] EXCEPT !.respCh = Append(@, m)]
                                  ELSE c.callers[r]]]
    ELSE IF m.ID = WelcomeID
    THEN [c EXCEPT !.sessionID = "session", !.welcomeCh = 1,
                   !.welcomed = @ \cup {conn}]
    ELSE IF m.type \in EventKinds
    THEN [c EXCEPT !.lastEvent = m.type]
    ELSE c

\* What readMessages does with a message it read: a message whose id is in
\* c.pending goes to that request's channel and the id is deleted; the
\* welcome sets the session and signals welcomeCh unless it holds a signal;
\* every other message is dropped.
Route(c, conn, m) ==
    IF m.ID \in c.pending
    THEN [c EXCEPT !.pending = @ \ {m.ID},
                   !.callers = [r \in Callers |->
                                  IF c.callers[r].id = m.ID
                                  THEN [c.callers[r] EXCEPT !.respCh = Append(@, m)]
                                  ELSE c.callers[r]]]
    ELSE IF m.ID = WelcomeID
    THEN [c EXCEPT !.sessionID = "session", !.welcomeCh = 1,
                   !.welcomed = @ \cup {conn}]
    ELSE IF m.type \in EventKinds
    THEN [c EXCEPT !.lastEvent = m.type]
    ELSE c

\* readMessages at the top of its loop: conn := c.conn; return if nil,
\* else block in conn.ReadMessage().
readMessagesLoop(g) ==
    /\ ws.rpc[g] = "top"
    /\ ~ws.mu
    /\ UNCHANGED <<adtVars, parse>>
    /\ ws' = IF ws.conn = NilConn
             THEN [ws EXCEPT !.rpc[g] = "exited"]
             ELSE [ws EXCEPT !.rpc[g] = "read", !.rconn[g] = ws.conn]

\* readMessages: one message, of those the server sends, read and routed.
readMessages(g, sends) ==
    /\ ws.rpc[g] = "read"
    /\ ws.rconn[g] \notin ws.closed
    /\ UNCHANGED <<adtVars, parse>>
    /\ \E m \in sends :
        ws' = [Route(ws, ws.rconn[g], m) EXCEPT !.rpc[g] = "top"]

\* readMessages: ReadMessage returned an error, the connection is closed:
\* c.conn = nil, c.isActive = false, return.
readMessagesError(g) ==
    /\ ws.rpc[g] = "read"
    /\ ws.rconn[g] \in ws.closed
    /\ ~ws.mu
    /\ UNCHANGED <<adtVars, parse>>
    /\ ws' = [ws EXCEPT !.conn = NilConn, !.isActive = FALSE, !.rpc[g] = "exited"]

\* The server or the network ends an open connection.
ConnectionLost ==
    /\ UNCHANGED <<adtVars, parse>>
    /\ \E k \in 1..ws.dialed :
        /\ k \notin ws.closed
        /\ ws' = [ws EXCEPT !.closed = @ \cup {k}]

\* Close: the connection is closed, c.conn = nil, c.isActive = false.
Close ==
    /\ ~ws.mu
    /\ ws.conn # NilConn
    /\ UNCHANGED <<adtVars, parse>>
    /\ ws' = [ws EXCEPT !.closed = @ \cup {ws.conn}, !.conn = NilConn,
                        !.isActive = FALSE]

\* IsConnected: c.conn != nil.
IsConnected == ws.conn # NilConn

(***************************************************************************)
(* ABAP source files and what ParseABAPFile finds in them                  *)
(***************************************************************************)
\* What a line of a source file is, as far as the parser tells lines apart:
\* the statement the line starts with (followed by a name), or a comment.
Statements ==
    {"CLASS DEFINITION", "CLASS IMPLEMENTATION", "REPORT", "PROGRAM", "INTERFACE",
     "FUNCTION-POOL", "FUNCTION", "define view", "define behavior for",
     "define service", "comment"}

\* The suffix of the file's base name: a compound extension, the generic
\* .abap, or another extension.
Extensions ==
    {".clas.abap", ".prog.abap", ".intf.abap", ".fugr.abap", ".func.abap",
     ".ddls.asddls", ".bdef.asbdef", ".srvd.srvdsrv", ".abap", ".txt"}

\* The readable files a caller passes.
Files ==
    [suffix : Extensions,
     content : UNION {[1..n -> Statements] : n \in 0..MaxLines}]

\* The switch on the compound extension; "" when none matches.
ObjectTypeOf(suffix) ==
    CASE suffix = ".clas.abap" -> "ObjectTypeClass"
      [] suffix = ".prog.abap" -> "ObjectTypeProgram"
      [] suffix = ".intf.abap" -> "ObjectTypeInterface"
      [] suffix = ".fugr.abap" -> "ObjectTypeFunctionGroup"
      [] suffix = ".func.abap" -> "ObjectTypeFunctionMod"
      [] suffix = ".ddls.asddls" -> "ObjectTypeDDLS"
      [] suffix = ".bdef.asbdef" -> "ObjectTypeBDEF"
      [] suffix = ".srvd.srvdsrv" -> "ObjectTypeSRVD"
      [] OTHER -> ""

\* The lines in which the name parser of an object type finds a name:
\* parseClassName, parseProgramName, parseInterfaceName,
\* parseFunctionGroupName, parseFunctionModuleName, parseDDLSName,
\* parseBDEFName, parseSRVDName.
NameStatements(type) ==
    CASE type = "ObjectTypeClass" -> {"CLASS DEFINITION"}
      [] type = "ObjectTypeProgram" -> {"REPORT", "PROGRAM"}
      [] type = "ObjectTypeInterface" -> {"INTERFACE"}
      [] type = "ObjectTypeFunctionGroup" -> {"FUNCTION-POOL"}
      [] type = "ObjectTypeFunctionMod" -> {"FUNCTION"}
      [] type = "ObjectTypeDDLS" -> {"define view"}
      [] type = "ObjectTypeBDEF" -> {"define behavior for"}
      [] type = "ObjectTypeSRVD" -> {"define service"}
      [] OTHER -> {}

\* The lines at which parseFromContent detects an object type.
DetectStatements ==
    {"CLASS DEFINITION", "REPORT", "PROGRAM", "INTERFACE", "FUNCTION-POOL",
     "FUNCTION"}

\* The scan of ParseABAPFile over the lines: info.ObjectName is set by every
\* line with a name, so it ends as the name of the last such line; "" when
\* there is none.  The name of a line is written as its statement.
ScanName(type, content) ==
    LET hits == {i \in DOMAIN content : content[i] \in NameStatements(type)}
    IN  IF hits = {} THEN ""
        ELSE content[CHOOSE i \in hits : \A j \in hits : j <= i]

NoInfo == [ObjectType |-> "", ObjectName |-> ""]

\* Before ParseABAPFile is called.
\*   pc: the function executing ("ParseABAPFile", "parseFromContent"), or
\*   "returned"; file: the filePath argument; info, err: what was returned.
NoParse ==
    [pc |-> "idle", file |-> [suffix |-> "", content |-> <<>>], info |-> NoInfo,
     err |-> Nil]

(***************************************************************************)
(* Workflows: WriteProgram, WriteClass, CreateAndActivateProgram,          *)
(* CreateClassWithTests                                                    *)
(***************************************************************************)
UpdateWorkflows == {"WriteProgram", "WriteClass"}
CreateWorkflows == {"CreateAndActivateProgram", "CreateClassWithTests"}
Workflows == UpdateWorkflows \cup CreateWorkflows

Severities == {"E", "W", "I", "A", "X"}

\* The lists of diagnostics (their severities) a syntax check can return.
DiagLists == UNION {[1..n -> Severities] : n \in 0..MaxDiags}

\* The handle the server hands out with a lock.
Handle == "H1"

\* The lock variable before LockObject has returned a LockResult.
NoLock == [ok |-> FALSE, LockHandle |-> ""]

NewResult ==
    [Success |-> FALSE, Message |-> "", SyntaxErrors |-> <<>>,
     Activation |-> "nil", UnitTestResult |-> "nil"]

\* for _, se := range syntaxErrors { if se.Severity == "E" || "A" || "X" ... }
HasSyntaxError_NoX(diags) ==
    \E i \in DOMAIN diags : diags[i] \in {"E", "A"}

HasSyntaxError(diags) ==
    \E i \in DOMAIN diags : diags[i] \in {"E", "A", "X"}

\* The deferred function's condition: if !result.Success { c.UnlockObject(...) }
DeferredUnlocks_Never(res) == FALSE

DeferredUnlocks(res) == ~res.Success

\* The statement a workflow starts with.
FirstStep(w) == IF w \in UpdateWorkflows THEN "SyntaxCheck" ELSE "CreateObject"

\* The statement after a successful UpdateSource of the main source.
AfterUpdateSource_NoTestInclude(w) == "Unlock"

AfterUpdateSource(w) ==
    IF w = "CreateClassWithTests" THEN "CreateTestInclude" ELSE "Unlock"

\* The statement after the explicit UnlockObject returned.
AfterUnlock_IgnoreError(err) == "Activate"

AfterUnlock(err) == IF err THEN "return" ELSE "Activate"

SuccessMessage(w) ==
    CASE w = "WriteProgram" -> "Program updated and activated successfully"
      [] w = "WriteClass" -> "Class updated and activated successfully"
      [] w = "CreateAndActivateProgram" -> "Program created and activated successfully"
      [] OTHER -> "Class created, activated, and unit tests executed successfully"

WorkflowInit ==
    /\ requests = <<>>
    /\ server = [source |-> "old", locked |-> FALSE]
    /\ wf = "none"
    /\ pc = "idle"
    /\ result = NewResult
    /\ lock = NoLock
    /\ deferred = FALSE
    /\ safety = UnrestrictedSafetyConfig
    /\ ret = NoCall
    /\ dep = NoDeploy
    /\ ws = NewAMDPWebSocketClient
    /\ parse = NoParse

\* The call of one of the four workflow functions.
Call ==
    /\ pc = "idle"
    /\ UNCHANGED <<gateVars, dep, ws, parse>>
    /\ \E w \in Workflows :
        /\ wf' = w
        /\ pc' = FirstStep(w)
    /\ result' = NewResult
    /\ UNCHANGED <<requests, server, lock, deferred>>

\* Step 1 of WriteProgram / WriteClass: syntax check before making changes.
SyntaxCheck ==
    /\ pc = "SyntaxCheck"
    /\ UNCHANGED <<gateVars, dep, ws, parse>>
    /\ \E err \in BOOLEAN, diags \in DiagLists :
        /\ requests' = Request(requests, "SyntaxCheck", "", ~err)
        /\ IF err
           THEN /\ result' = [result EXCEPT !.Message = "Syntax check failed"]
                /\ pc' = "return"
           ELSE IF HasSyntaxError(diags)
           THEN /\ result' = [result EXCEPT !.SyntaxErrors = diags,
                                  !.Message = "Source has syntax errors - not saved"]
                /\ pc' = "return"
           ELSE /\ result' = [result EXCEPT !.SyntaxErrors = diags]
                /\ pc' = "Lock"
    /\ UNCHANGED <<server, wf, lock, deferred>>

\* Step 1 of CreateAndActivateProgram / CreateClassWithTests: create the object.
CreateObject ==
    /\ pc = "CreateObject"
    /\ UNCHANGED <<gateVars, dep, ws, parse>>
    /\ \E err \in BOOLEAN :
        /\ requests' = Request(requests, "CreateObject", "", ~err)
        /\ IF err
           THEN /\ result' = [result EXCEPT !.Message = "Failed to create"]
                /\ pc' = "return"
           ELSE /\ result' = result
                /\ pc' = "Lock"
    /\ UNCHANGED <<server, wf, lock, deferred>>

\* LockObject, and on success the registration of the deferred cleanup.
\* A lock request that fails may or may not have locked the object.
Lock ==
    /\ pc = "Lock"
    /\ UNCHANGED <<gateVars, dep, ws, parse>>
    /\ \E err \in BOOLEAN, held \in BOOLEAN :
        /\ requests' = Request(requests, "Lock", "", ~err)
        /\ IF err
           THEN /\ result' = [result EXCEPT !.Message = "Failed to lock object"]
                /\ server' = [server EXCEPT !.locked = held]
                /\ pc' = "return"
                /\ UNCHANGED <<lock, deferred>>
           ELSE /\ lock' = [ok |-> TRUE, LockHandle |-> Handle]
                /\ server' = [server EXCEPT !.locked = TRUE]
                /\ deferred' = TRUE
                /\ pc' = "UpdateSource"
                /\ result' = result
    /\ UNCHANGED wf

\* UpdateSource: PUT of the main source under the lock handle.
UpdateSource ==
    /\ pc = "UpdateSource"
    /\ UNCHANGED <<gateVars, dep, ws, parse>>
    /\ \E err \in BOOLEAN :
        /\ requests' = Request(requests, "UpdateSource", lock.LockHandle, ~err)
        /\ IF err
           THEN /\ result' = [result EXCEPT !.Message = "Failed to update source"]
                /\ pc' = "return"
                /\ server' = server
           ELSE /\ server' = [server EXCEPT !.source = "new"]
                /\ pc' = AfterUpdateSource(wf)
                /\ result' = result
    /\ UNCHANGED <<wf, lock, deferred>>

\* CreateClassWithTests step 4: create the testclasses include.
CreateTestInclude ==
    /\ pc = "CreateTestInclude"
    /\ UNCHANGED <<gateVars, dep, ws, parse>>
    /\ \E err \in BOOLEAN :
        /\ requests' = Request(requests, "CreateTestInclude", lock.LockHandle, ~err)
        /\ IF err
           THEN /\ result' = [result EXCEPT !.Message = "Failed to create test include"]
                /\ pc' = "return"
           ELSE /\ result' = result
                /\ pc' = "UpdateClassInclude"
    /\ UNCHANGED <<server, wf, lock, deferred>>

\* CreateClassWithTests step 5: PUT of the test source to the include.
UpdateClassInclude ==
    /\ pc = "UpdateClassInclude"
    /\ UNCHANGED <<gateVars, dep, ws, parse>>
    /\ \E err \in BOOLEAN :
        /\ requests' = Request(requests, "UpdateClassInclude", lock.LockHandle, ~err)
        /\ IF err
           THEN /\ result' = [result EXCEPT !.Message = "Failed to update test source"]
                /\ pc' = "return"
           ELSE /\ result' = result
                /\ pc' = "Unlock"
    /\ UNCHANGED <<server, wf, lock, deferred>>

\* The explicit UnlockObject before activation.  An unlock request that
\* fails may or may not have released the lock.
Unlock ==
    /\ pc = "Unlock"
    /\ UNCHANGED <<gateVars, dep, ws, parse>>
    /\ \E err \in BOOLEAN, held \in BOOLEAN :
        /\ requests' = Request(requests, "Unlock", lock.LockHandle, ~err)
        /\ server' = [server EXCEPT !.locked = IF err THEN held ELSE FALSE]
        /\ result' = IF err
                     THEN [result EXCEPT !.Message = "Failed to unlock object"]
                     ELSE result
        /\ pc' = AfterUnlock(err)
    /\ UNCHANGED <<wf, lock, deferred>>

\* Activate, and the setting of result.Success from activation.Success.
\* outcome "err": Activate returned an error (activation is nil);
\* "failed": an ActivationResult with Success = false; "ok": Success = true.
\* result.Activation is "nil", "Failed" or "Success" accordingly.
Activate ==
    /\ pc = "Activate"
    /\ UNCHANGED <<gateVars, dep, ws, parse>>
    /\ \E outcome \in {"err", "failed", "ok"} :
        /\ requests' = Request(requests, "Activate", "", outcome # "err")
        /\ CASE outcome = "err" ->
                  /\ result' = [result EXCEPT !.Message = "Failed to activate",
                                              !.Activation = "nil"]
                  /\ pc' = "return"
             [] outcome = "failed" ->
                  /\ result' = [result EXCEPT
                                  !.Activation = "Failed",
                                  !.Message = "Activation failed - check activation messages"]
                  /\ pc' = "return"
             [] OTHER ->
                  IF wf = "CreateClassWithTests"
                  THEN /\ result' = [result EXCEPT !.Activation = "Success"]
                       /\ pc' = "RunUnitTests"
                  ELSE /\ result' = [result EXCEPT
                                       !.Activation = "Success",
                                       !.Success = TRUE,
                                       !.Message = SuccessMessage(wf)]
                       /\ pc' = "return"
    /\ UNCHANGED <<server, wf, lock, deferred>>

\* CreateClassWithTests step 8: run the unit tests.
RunUnitTests ==
    /\ pc = "RunUnitTests"
    /\ UNCHANGED <<gateVars, dep, ws, parse>>
    /\ \E err \in BOOLEAN :
        /\ requests' = Request(requests, "RunUnitTests", "", ~err)
        /\ result' = IF err
                     THEN [result EXCEPT !.Success = TRUE,
                             !.Message = "Class activated but unit tests failed to run"]
                     ELSE [result EXCEPT !.UnitTestResult = "report",
                             !.Success = TRUE,
                             !.Message = SuccessMessage(wf)]
        /\ pc' = "return"
    /\ UNCHANGED <<server, wf, lock, deferred>>

\* The return of the workflow: the deferred function runs, if registered,
\* and unlocks when the result is not a success; its error is dropped.
Return ==
    /\ pc = "return"
    /\ UNCHANGED <<gateVars, dep, ws, parse>>
    /\ pc' = "done"
    /\ IF deferred /\ DeferredUnlocks(result)
       THEN \E err \in BOOLEAN, held \in BOOLEAN :
              /\ requests' = Request(requests, "Unlock", lock.LockHandle, ~err)
              /\ server' = [server EXCEPT !.locked = IF err THEN held ELSE FALSE]
       ELSE UNCHANGED <<requests, server>>
    /\ UNCHANGED <<wf, result, lock, deferred>>

WorkflowNext ==
    \/ Call
    \/ SyntaxCheck
    \/ CreateObject
    \/ Lock
    \/ UpdateSource
    \/ CreateTestInclude
    \/ UpdateClassInclude
    \/ Unlock
    \/ Activate
    \/ RunUnitTests
    \/ Return

WorkflowSpec == WorkflowInit /\ [][WorkflowNext]_vars

(***************************************************************************)
(* Transport-management operations of the client                           *)
(***************************************************************************)
\* Length of a transport number (e.g. DEVK900001).
TransportNumberLen == 10

\* The transport numbers callers pass.
TransportNumbers == {<<>>, <<"*">>, DEVK900001, devk900001, A4HK900110}

\* Descriptions and packages callers pass to CreateTransportV2.
Texts == {<<>>, <<"x">>}

\* The operations that guard with checkSafety(OpTransport, ...).
ClassGatedOps ==
    {"GetUserTransports", "GetTransportInfo", "CreateTransport", "ReleaseTransport"}

\* The operations that guard with Safety.CheckTransport(...).
TransportGatedOps ==
    {"ListTransports", "GetTransport", "CreateTransportV2", "ReleaseTransportV2",
     "DeleteTransport"}

TransportInit ==
    /\ requests = <<>>
    /\ server = [source |-> "old", locked |-> FALSE]
    /\ wf = "none"
    /\ pc = "idle"
    /\ result = NewResult
    /\ lock = NoLock
    /\ deferred = FALSE
    /\ safety \in SafetyConfigs
    /\ ret = NoCall
    /\ dep = NoDeploy
    /\ ws = NewAMDPWebSocketClient
    /\ parse = NoParse

\* A direct call of SafetyConfig.CheckOperation.
CallCheckOperation ==
    /\ ret.op = "none"
    /\ UNCHANGED <<server, wfVars, safety, dep, ws, parse>>
    /\ \E op \in OperationTypes :
        ret' = Returned("CheckOperation", <<op>>,
                        IF CheckOperation(safety, op) = Nil THEN "ok" ELSE "blocked",
                        CheckOperation(safety, op))
    /\ UNCHANGED requests

\* A direct call of SafetyConfig.CheckTransport; arg holds the transport and "W" or "R".
CallCheckTransport ==
    /\ ret.op = "none"
    /\ UNCHANGED <<server, wfVars, safety, dep, ws, parse>>
    /\ \E t \in TransportNumbers, isWrite \in BOOLEAN :
        ret' = Returned("CheckTransport", <<t, IF isWrite THEN "W" ELSE "R">>,
                        IF CheckTransport(safety, t, isWrite) = Nil THEN "ok" ELSE "blocked",
                        CheckTransport(safety, t, isWrite))
    /\ UNCHANGED requests

\* The body shared by the operations that check, then send one request.
\* err: the safety check's error; invalid: whether an argument is rejected
\* after the check and before the request.
CheckThenRequest(op, arg, err, invalid) ==
    IF err # Nil
    THEN /\ ret' = Returned(op, arg, "blocked", err)
         /\ UNCHANGED requests
    ELSE IF invalid
    THEN /\ ret' = Returned(op, arg, "invalid", "invalid argument")
         /\ UNCHANGED requests
    ELSE \E ok \in BOOLEAN :
            /\ requests' = Request(requests, op, "", ok)
            /\ ret' = Returned(op, arg, IF ok THEN "ok" ELSE "failed",
                               IF ok THEN Nil ELSE "request failed")

GetUserTransports ==
    /\ ret.op = "none"
    /\ UNCHANGED <<server, wfVars, safety, dep, ws, parse>>
    /\ CheckThenRequest("GetUserTransports", <<>>,
                        checkSafety(safety, OpTransport), FALSE)

GetTransportInfo ==
    /\ ret.op = "none"
    /\ UNCHANGED <<server, wfVars, safety, dep, ws, parse>>
    /\ CheckThenRequest("GetTransportInfo", <<>>,
                        checkSafety(safety, OpTransport), FALSE)

CreateTransport ==
    /\ ret.op = "none"
    /\ UNCHANGED <<server, wfVars, safety, dep, ws, parse>>
    /\ CheckThenRequest("CreateTransport", <<>>,
                        checkSafety(safety, OpTransport), FALSE)

ReleaseTransport ==
    /\ ret.op = "none"
    /\ UNCHANGED <<server, wfVars, safety, dep, ws, parse>>
    /\ \E number \in TransportNumbers :
        CheckThenRequest("ReleaseTransport", number,
                         checkSafety(safety, OpTransport),
                         Len(ToUpper(number)) # TransportNumberLen)

ListTransports ==
    /\ ret.op = "none"
    /\ UNCHANGED <<server, wfVars, safety, dep, ws, parse>>
    /\ CheckThenRequest("ListTransports", <<>>,
                        CheckTransport(safety, <<>>, FALSE), FALSE)

GetTransport ==
    /\ ret.op = "none"
    /\ UNCHANGED <<server, wfVars, safety, dep, ws, parse>>
    /\ \E number \in TransportNumbers :
        CheckThenRequest("GetTransport", number,
                         CheckTransport(safety, number, FALSE), number = <<>>)

CreateTransportV2 ==
    /\ ret.op = "none"
    /\ UNCHANGED <<server, wfVars, safety, dep, ws, parse>>
    /\ \E description \in Texts, package \in Texts :
        CheckThenRequest("CreateTransportV2", <<description, package>>,
                         CheckTransport(safety, <<>>, TRUE),
                         description = <<>> \/ package = <<>>)

\* ReleaseTransportV2 with the request sent before the safety check is looked at.
ReleaseTransportV2_RequestFirst ==
    /\ ret.op = "none"
    /\ UNCHANGED <<server, wfVars, safety, dep, ws, parse>>
    /\ \E number \in TransportNumbers, ok \in BOOLEAN :
        /\ requests' = Request(requests, "ReleaseTransportV2", "", ok)
        /\ ret' = IF CheckTransport(safety, number, TRUE) # Nil
                  THEN Returned("ReleaseTransportV2", number, "blocked",
                                CheckTransport(safety, number, TRUE))
                  ELSE Returned("ReleaseTransportV2", number,
                                IF ok THEN "ok" ELSE "failed", Nil)

ReleaseTransportV2 ==
    /\ ret.op = "none"
    /\ UNCHANGED <<server, wfVars, safety, dep, ws, parse>>
    /\ \E number \in TransportNumbers :
        CheckThenRequest("ReleaseTransportV2", number,
                         CheckTransport(safety, number, TRUE), number = <<>>)

DeleteTransport ==
    /\ ret.op = "none"
    /\ UNCHANGED <<server, wfVars, safety, dep, ws, parse>>
    /\ \E number \in TransportNumbers :
        CheckThenRequest("DeleteTransport", number,
                         CheckTransport(safety, number, TRUE), number = <<>>)

TransportNext ==
    \/ CallCheckOperation
    \/ CallCheckTransport
    \/ GetUserTransports
    \/ GetTransportInfo
    \/ CreateTransport
    \/ ReleaseTransport
    \/ ListTransports
    \/ GetTransport
    \/ CreateTransportV2
    \/ ReleaseTransportV2
    \/ DeleteTransport

TransportSpec == TransportInit /\ [][TransportNext]_vars

(***************************************************************************)
(* Package check of the safety gate                                        *)
(***************************************************************************)
\* The patterns AllowedPackages lists are made of.
PackagePatterns ==
    {<<"$", "T", "M", "P">>, <<"z", "*">>, <<"Z", "T">>, <<"*">>, <<"Z", "*", "T">>}

\* The AllowedPackages lists of the configurations.
PackageLists == UNION {[1..n -> PackagePatterns] : n \in 0..MaxPatterns}

\* The package names callers pass.
PackageNames ==
    {<<>>, <<"$", "T", "M", "P">>, <<"$", "t", "m", "p">>, <<"Z", "T">>, <<"z", "t">>,
     <<"Z">>, <<"Z", "A", "T">>, <<"Y", "Z">>}

PackageInit ==
    /\ requests = <<>>
    /\ server = [source |-> "old", locked |-> FALSE]
    /\ wf = "none"
    /\ pc = "idle"
    /\ result = NewResult
    /\ lock = NoLock
    /\ deferred = FALSE
    /\ \E packages \in PackageLists, dryRun \in BOOLEAN :
          safety = [UnrestrictedSafetyConfig EXCEPT !.AllowedPackages = packages,
                                                    !.DryRun = dryRun]
    /\ ret = NoCall
    /\ dep = NoDeploy
    /\ ws = NewAMDPWebSocketClient
    /\ parse = NoParse

\* A call of SafetyConfig.IsPackageAllowed; kind holds the boolean returned.
CallIsPackageAllowed ==
    /\ ret.op = "none"
    /\ UNCHANGED <<requests, server, wfVars, safety, dep, ws, parse>>
    /\ \E pkg \in PackageNames :
        ret' = Returned("IsPackageAllowed", <<pkg>>,
                        IF IsPackageAllowed(safety, pkg) THEN "true" ELSE "false", Nil)

\* A call of SafetyConfig.CheckPackage.
CallCheckPackage ==
    /\ ret.op = "none"
    /\ UNCHANGED <<requests, server, wfVars, safety, dep, ws, parse>>
    /\ \E pkg \in PackageNames :
        ret' = Returned("CheckPackage", <<pkg>>,
                        IF CheckPackage(safety, pkg) = Nil THEN "ok" ELSE "blocked",
                        CheckPackage(safety, pkg))

PackageNext ==
    \/ CallIsPackageAllowed
    \/ CallCheckPackage

PackageSpec == PackageInit /\ [][PackageNext]_vars

(***************************************************************************)
(* Deployment plan of an archive: DeploymentOrder, CreateDeploymentPlan    *)
(***************************************************************************)
PlanInit ==
    /\ requests = <<>>
    /\ server = [source |-> "old", locked |-> FALSE]
    /\ wf = "none"
    /\ pc = "idle"
    /\ result = NewResult
    /\ lock = NoLock
    /\ deferred = FALSE
    /\ safety = UnrestrictedSafetyConfig
    /\ ret = NoCall
    /\ dep = NoDeploy
    /\ ws = NewAMDPWebSocketClient
    /\ parse = NoParse

\* A call of DeploymentOrder; arg holds the files passed and the files returned.
CallDeploymentOrder ==
    /\ ret.op = "none"
    /\ UNCHANGED <<requests, server, wfVars, safety, dep, ws, parse>>
    /\ \E files \in Archives :
        ret' = Returned("DeploymentOrder",
                        [files |-> files, sorted |-> DeploymentOrder(files)], "ok", Nil)

\* A call of CreateDeploymentPlan; arg holds the files passed and plan.Objects.
CallCreateDeploymentPlan ==
    /\ ret.op = "none"
    /\ UNCHANGED <<requests, server, wfVars, safety, dep, ws, parse>>
    /\ \E files \in Archives :
        ret' = Returned("CreateDeploymentPlan",
                        [files |-> files, objects |-> CreateDeploymentPlan(files)], "ok", Nil)

PlanNext ==
    \/ CallDeploymentOrder
    \/ CallCreateDeploymentPlan

PlanSpec == PlanInit /\ [][PlanNext]_vars

(***************************************************************************)
(* ActivatePackageIterative called on a package                            *)
(***************************************************************************)
\* The maxPasses arguments callers pass.
PassLimits == {1, 3, MaxPasses}

ActivateInit ==
    /\ requests = <<>>
    /\ server = [source |-> "old", locked |-> FALSE]
    /\ wf = "none"
    /\ pc = "idle"
    /\ result = NewResult
    /\ lock = NoLock
    /\ deferred = FALSE
    /\ safety = UnrestrictedSafetyConfig
    /\ ret = NoCall
    /\ dep = NoDeploy
    /\ ws = NewAMDPWebSocketClient
    /\ parse = NoParse

\* The call of ActivatePackageIterative(ctx, pkg, maxPasses) on a package
\* with n inactive objects; arg holds maxPasses and the iteration.
CallActivatePackageIterative ==
    /\ ret.op = "none"
    /\ UNCHANGED <<requests, server, wfVars, safety, dep, ws, parse>>
    /\ \E maxPasses \in PassLimits, n \in 0..MaxInactive :
        ret' = Returned("ActivatePackageIterative",
                        [maxPasses |-> maxPasses, it |-> NewIteration(n)], "running", Nil)

\* One pass of the running iteration.
ActivatePass ==
    /\ ret.op = "ActivatePackageIterative"
    /\ ret.kind = "running"
    /\ UNCHANGED <<server, wfVars, safety, dep, ws, parse>>
    /\ \E ok \in BOOLEAN :
        /\ requests' = Request(requests, "ActivatePackage", "", ok)
        /\ IF ~ok
           THEN ret' = [ret EXCEPT !.kind = "failed", !.err = "activation failed"]
           ELSE \E left \in 0..ret.arg.it.inactive :
                  LET next == ActivationPass(ret.arg.it, ret.arg.maxPasses, left)
                  IN  ret' = [ret EXCEPT !.arg.it = next,
                                         !.kind = IF next.stopped THEN "ok" ELSE "running"]

ActivateNext ==
    \/ CallActivatePackageIterative
    \/ ActivatePass

ActivateSpec == ActivateInit /\ [][ActivateNext]_vars

\* The function runs in its caller's goroutine: a pass that is due is run.
ActivateFairSpec == ActivateSpec /\ WF_vars(ActivateNext)

(***************************************************************************)
(* Activate and parseActivationResult                                      *)
(***************************************************************************)
\* The type attribute of a <msg>: the severities of ADT, or none.
MessageTypes == {<<"E">>, <<"W">>, <<"I">>, <<"A">>, <<"X">>, <<>>}

\* An <entry> of <inactiveObjects>: the uri of its <object>, or Nil for an
\* entry without one.
EntryObjects == {Nil, "/sap/bc/adt/oo/classes/zcl_a"}

\* The message types that make an activation fail.
EAX == <<"E", "A", "X">>

\* The bodies the server answers an activation with: no bytes, bytes that
\* xml.Unmarshal rejects, or a document with its messages and entries.
EmptyBody == [kind |-> "empty", msgs |-> <<>>, entries |-> <<>>]

ActivationBodies ==
    {EmptyBody, [kind |-> "text", msgs |-> <<>>, entries |-> <<>>]}
    \cup {[kind |-> "xml", msgs |-> m, entries |-> en] :
             m \in UNION {[1..n -> MessageTypes] : n \in 0..MaxMessages},
             en \in UNION {[1..n -> EntryObjects] : n \in 0..MaxEntries}}

\* parseActivationResult with the inactive entries not looked at.
parseActivationResult_IgnoreInactive(data) ==
    IF data.kind = "empty"
    THEN [Success |-> TRUE, Messages |-> <<>>, Inactive |-> <<>>]
    ELSE IF data.kind # "xml"
    THEN [Success |-> FALSE, Messages |-> << <<"E">> >>, Inactive |-> <<>>]
    ELSE [Success |-> ~ \E i \in DOMAIN data.msgs : ContainsAny(data.msgs[i], EAX),
          Messages |-> data.msgs,
          Inactive |-> <<>>]

\* parseActivationResult.  Messages holds the Type of each message,
\* Inactive the uri of each inactive object.
parseActivationResult(data) ==
    IF data.kind = "empty"
    THEN [Success |-> TRUE, Messages |-> <<>>, Inactive |-> <<>>]
    ELSE IF data.kind # "xml"
    THEN [Success |-> FALSE, Messages |-> << <<"E">> >>, Inactive |-> <<>>]
    ELSE [Success |-> /\ ~ \E i \in DOMAIN data.msgs : ContainsAny(data.msgs[i], EAX)
                      /\ ~ \E i \in DOMAIN data.entries : data.entries[i] # Nil,
          Messages |-> data.msgs,
          Inactive |-> SelectSeq(data.entries, LAMBDA o : o # Nil)]

ActivationResultInit ==
    /\ requests = <<>>
    /\ server = [source |-> "old", locked |-> FALSE]
    /\ wf = "none"
    /\ pc = "idle"
    /\ result = NewResult
    /\ lock = NoLock
    /\ deferred = FALSE
    /\ safety = UnrestrictedSafetyConfig
    /\ ret = NoCall
    /\ dep = NoDeploy
    /\ ws = NewAMDPWebSocketClient
    /\ parse = NoParse

\* Client.Activate up to the answer of its request: the error of a failed
\* request is returned, the body of an answered one is parsed next.
CallActivate ==
    /\ ret.op = "none"
    /\ UNCHANGED <<server, wfVars, safety, dep, ws, parse>>
    /\ \E ok \in BOOLEAN :
        /\ requests' = Request(requests, "Activate", "", ok)
        /\ IF ~ok
           THEN ret' = Returned("Activate", <<>>, "failed", "activation failed")
           ELSE \E data \in ActivationBodies :
                  ret' = Returned("Activate", [data |-> data], "answered", Nil)

\* return parseActivationResult(resp.Body)
ReturnActivationResult ==
    /\ ret.op = "Activate"
    /\ ret.kind = "answered"
    /\ UNCHANGED <<requests, server, wfVars, safety, dep, ws, parse>>
    /\ ret' = [ret EXCEPT !.kind = "ok",
                          !.arg = [data |-> ret.arg.data,
                                   result |-> parseActivationResult(ret.arg.data)]]

ActivationResultNext ==
    \/ CallActivate
    \/ ReturnActivationResult

ActivationResultSpec == ActivationResultInit /\ [][ActivationResultNext]_vars

(***************************************************************************)
(* Connect                                                                 *)
(***************************************************************************)
\* Connect up to its select.  With a connection it returns "already
\* connected"; a base URL that does not parse and a failed dial return the
\* error with c.mu still held; a dialed connection is stored, its reader goroutine started, and Connect
\* waits for the welcome.
Connect ==
    /\ ws.connect.pc \in {"idle", "returned"}
    /\ ~ws.mu
    /\ UNCHANGED <<adtVars, parse>>
    /\ IF ws.conn # NilConn
       THEN ws' = [ws EXCEPT !.connect = [pc |-> "returned", conn |-> NilConn,
                                          err |-> "already connected"]]
       ELSE /\ ws.dialed < MaxConns
            /\ \E outcome \in {"invalid base URL", "WebSocket connection failed",
                                 "dialed"} :
                 IF outcome # "dialed"
                 THEN ws' = [ws EXCEPT !.mu = TRUE,
                               !.connect = [pc |-> "returned", conn |-> NilConn,
                                            err |-> outcome]]
                 ELSE LET k == ws.dialed + 1
                      IN  ws' = [ws EXCEPT !.dialed = k, !.conn = k,
                                   !.rpc[k] = "top",
                                   !.connect = [pc |-> "select", conn |-> k, err |-> Nil]]

\* case <-c.welcomeCh: return nil
ConnectWelcome ==
    /\ ws.connect.pc = "select"
    /\ ws.welcomeCh > 0
    /\ UNCHANGED <<adtVars, parse>>
    /\ ws' = [ws EXCEPT !.welcomeCh = 0, !.connect.pc = "returned"]

\* case <-time.After(5 * time.Second), case <-ctx.Done(): the case is
\* taken; the connection is closed next.
ConnectTimeout ==
    /\ ws.connect.pc = "select"
    /\ UNCHANGED <<adtVars, parse>>
    /\ \E why \in {"timeout waiting for welcome message", "context canceled"} :
        ws' = [ws EXCEPT !.connect.pc = "close", !.connect.err = why]

\* The body of the two cases: c.mu.Lock(); if c.conn != nil { c.conn.Close();
\* c.conn = nil }; c.mu.Unlock(); return the error.
ConnectClose ==
    /\ ws.connect.pc = "close"
    /\ ~ws.mu
    /\ UNCHANGED <<adtVars, parse>>
    /\ ws' = [ws EXCEPT !.closed = IF ws.conn # NilConn THEN @ \cup {ws.conn} ELSE @,
                        !.conn = NilConn,
                        !.connect.pc = "returned"]

ConnectInit ==
    /\ requests = <<>>
    /\ server = [source |-> "old", locked |-> FALSE]
    /\ wf = "none"
    /\ pc = "idle"
    /\ result = NewResult
    /\ lock = NoLock
    /\ deferred = FALSE
    /\ safety = UnrestrictedSafetyConfig
    /\ ret = NoCall
    /\ dep = NoDeploy
    /\ ws = NewAMDPWebSocketClient
    /\ parse = NoParse

\* A reader reads a message the server sent on its own.
ReadOne == \E g \in Conns : readMessages(g, ServerMessages)

ReadLoop == \E g \in Conns : readMessagesLoop(g)

ReadError == \E g \in Conns : readMessagesError(g)

ConnectNext ==
    \/ Connect
    \/ ConnectWelcome
    \/ ConnectTimeout
    \/ ConnectClose
    \/ Close
    \/ ConnectionLost
    \/ ReadLoop
    \/ ReadOne
    \/ ReadError

ConnectSpec == ConnectInit /\ [][ConnectNext]_vars

(***************************************************************************)
(* Requests on a session: sendRequest, sendReportRequest                   *)
(***************************************************************************)
\* c.msgID.Add(1)
NextMsgID_NoAdd(n) == n

NextMsgID(n) == n + 1

\* A goroutine calls a method of the client that sends a request of the
\* amdp domain (sendRequest) or of the report domain (sendReportRequest).
CallRequest(r) ==
    /\ ws.callers[r].pc = "idle"
    /\ UNCHANGED <<adtVars, parse>>
    /\ \E fn \in {"sendRequest", "sendReportRequest"} :
        ws' = [ws EXCEPT !.callers[r].pc = "entry", !.callers[r].fn = fn]

\* sendRequest up to the registration of its reply channel: conn := c.conn
\* under c.mu.RLock(); "not connected" if nil; the id; c.pending[id] = respCh.
sendRequest(r) ==
    /\ ws.callers[r].pc = "entry"
    /\ ws.callers[r].fn = "sendRequest"
    /\ ~ws.mu
    /\ UNCHANGED <<adtVars, parse>>
    /\ IF ws.conn = NilConn
       THEN ws' = [ws EXCEPT !.callers[r].pc = "returned",
                             !.callers[r].err = "not connected"]
       ELSE LET n == NextMsgID(ws.msgID)
            IN  ws' = [ws EXCEPT !.msgID = n,
                         !.pending = @ \cup {Sprintf("amdp", n)},
                         !.callers[r] = [@ EXCEPT !.pc = "send", !.conn = ws.conn,
                                                  !.id = Sprintf("amdp", n)]]

\* sendRequest: json.Marshal, then conn.WriteMessage is called on the local
\* conn, with no lock held.  An encoding error is returned as it is.
sendRequestWrite(r) ==
    /\ ws.callers[r].pc = "send"
    /\ ws.callers[r].fn = "sendRequest"
    /\ UNCHANGED <<adtVars, parse>>
    /\ \E encoded \in BOOLEAN :
        IF ~encoded
        THEN ws' = [ws EXCEPT !.callers[r].pc = "returned",
                              !.callers[r].err = "encode failed"]
        ELSE ws' = [ws EXCEPT !.callers[r].pc = "writing"]

\* sendRequest: conn.WriteMessage returns.  A send error is returned after
\* delete(c.pending, id); a write on a closed connection fails.
sendRequestWritten(r) ==
    /\ ws.callers[r].pc = "writing"
    /\ ws.callers[r].fn = "sendRequest"
    /\ UNCHANGED <<adtVars, parse>>
    /\ \E sent \in BOOLEAN :
        IF ~sent
        THEN ws' = [ws EXCEPT !.pending = @ \ {ws.callers[r].id},
                              !.callers[r].pc = "returned",
                              !.callers[r].err = "send failed"]
        ELSE /\ ws.callers[r].conn \notin ws.closed
             /\ ws' = [ws EXCEPT !.callers[r].pc = "wait"]

\* sendReportRequest up to the registration of its reply channel, with the
\* deferred delete(c.pending, id).
sendReportRequest(r) ==
    /\ ws.callers[r].pc = "entry"
    /\ ws.callers[r].fn = "sendReportRequest"
    /\ ~ws.mu
    /\ UNCHANGED <<adtVars, parse>>
    /\ IF ws.conn = NilConn
       THEN ws' = [ws EXCEPT !.callers[r].pc = "returned",
                             !.callers[r].err = "not connected"]
       ELSE LET n == NextMsgID(ws.msgID)
            IN  ws' = [ws EXCEPT !.msgID = n,
                         !.pending = @ \cup {Sprintf("report", n)},
                         !.callers[r] = [@ EXCEPT !.pc = "send",
                                                  !.id = Sprintf("report", n)]]

\* sendReportRequest: json.Marshal, then c.mu.Lock() and the calls of
\* c.conn.SetWriteDeadline and c.conn.WriteMessage.  c.conn is read again:
\* when it has become nil the call on it panics with c.mu held; the
\* deferred delete runs on every way out.
sendReportRequestWrite(r) ==
    /\ ws.callers[r].pc = "send"
    /\ ws.callers[r].fn = "sendReportRequest"
    /\ UNCHANGED <<adtVars, parse>>
    /\ \E encoded \in BOOLEAN :
        IF ~encoded
        THEN ws' = [ws EXCEPT !.pending = @ \ {ws.callers[r].id},
                              !.callers[r].pc = "returned",
                              !.callers[r].err = "encode failed"]
        ELSE /\ ~ws.mu
             /\ IF ws.conn = NilConn
                THEN ws' = [ws EXCEPT !.mu = TRUE,
                                      !.pending = @ \ {ws.callers[r].id},
                                      !.callers[r].pc = "panicked"]
                ELSE ws' = [ws EXCEPT !.mu = TRUE,
                                      !.callers[r].conn = ws.conn,
                                      !.callers[r].pc = "writing"]

\* sendReportRequest: the write returns, c.mu.Unlock().  A send error is
\* returned; a write on a closed connection fails.
sendReportRequestWritten(r) ==
    /\ ws.callers[r].pc = "writing"
    /\ ws.callers[r].fn = "sendReportRequest"
    /\ UNCHANGED <<adtVars, parse>>
    /\ \E sent \in BOOLEAN :
        IF ~sent
        THEN ws' = [ws EXCEPT !.mu = FALSE,
                              !.pending = @ \ {ws.callers[r].id},
                              !.callers[r].pc = "returned",
                              !.callers[r].err = "send failed"]
        ELSE /\ ws.callers[r].conn \notin ws.closed
             /\ ws' = [ws EXCEPT !.mu = FALSE, !.callers[r].pc = "wait"]

\* case resp := <-respCh.  sendRequest returns the message; sendReportRequest
\* returns the error of a message that carries one.
ReceiveResponse(r) ==
    /\ ws.callers[r].pc = "wait"
    /\ ws.callers[r].respCh # <<>>
    /\ UNCHANGED <<adtVars, parse>>
    /\ LET resp == Head(ws.callers[r].respCh)
           isErr == ws.callers[r].fn = "sendReportRequest" /\ resp.type = "error"
       IN  ws' = [ws EXCEPT
                    !.pending = IF ws.callers[r].fn = "sendReportRequest"
                                THEN @ \ {ws.callers[r].id} ELSE @,
                    !.callers[r] = [@ EXCEPT !.pc = "returned", !.respCh = <<>>,
                                      !.resp = IF isErr THEN NoResponse ELSE resp,
                                      !.err = IF isErr THEN "error response" ELSE Nil]]

\* case <-ctx.Done(): delete(c.pending, id); return ctx.Err()
ContextDone(r) ==
    /\ ws.callers[r].pc = "wait"
    /\ UNCHANGED <<adtVars, parse>>
    /\ ws' = [ws EXCEPT !.pending = @ \ {ws.callers[r].id},
                        !.callers[r].pc = "returned",
                        !.callers[r].err = "context canceled"]

\* case <-time.After(60 * time.Second) (120 s for a report request):
\* delete(c.pending, id); return the timeout error.
RequestTimeout(r) ==
    /\ ws.callers[r].pc = "wait"
    /\ UNCHANGED <<adtVars, parse>>
    /\ ws' = [ws EXCEPT !.pending = @ \ {ws.callers[r].id},
                        !.callers[r].pc = "returned",
                        !.callers[r].err = "timeout"]

\* The client when requests start: connected with the welcome read,
\* never connected, or after a Connect whose dial failed.
ConnectedClient ==
    [NewAMDPWebSocketClient EXCEPT
        !.conn = 1, !.dialed = 1, !.rpc[1] = "top", !.rconn[1] = 1, !.welcomed = {1},
        !.sessionID = "session",
        !.connect = [pc |-> "returned", conn |-> 1, err |-> Nil]]

DialFailedClient ==
    [NewAMDPWebSocketClient EXCEPT
        !.mu = TRUE,
        !.connect = [pc |-> "returned", conn |-> NilConn,
                     err |-> "WebSocket connection failed"]]

SessionInit ==
    /\ requests = <<>>
    /\ server = [source |-> "old", locked |-> FALSE]
    /\ wf = "none"
    /\ pc = "idle"
    /\ result = NewResult
    /\ lock = NoLock
    /\ deferred = FALSE
    /\ safety = UnrestrictedSafetyConfig
    /\ ret = NoCall
    /\ dep = NoDeploy
    /\ ws \in {ConnectedClient, NewAMDPWebSocketClient, DialFailedClient}
    /\ parse = NoParse

\* A reader reads a message the server sent for a request.
ReadReply == \E g \in Conns : readMessages(g, Replies)

\* The steps of the goroutine r inside a request.
RequestStep(r) ==
    \/ sendRequest(r)
    \/ sendRequestWrite(r)
    \/ sendRequestWritten(r)
    \/ sendReportRequest(r)
    \/ sendReportRequestWrite(r)
    \/ sendReportRequestWritten(r)
    \/ ReceiveResponse(r)
    \/ ContextDone(r)
    \/ RequestTimeout(r)

SessionNext ==
    \/ \E r \in Callers : CallRequest(r)
    \/ \E r \in Callers : sendRequest(r)
    \/ \E r \in Callers : sendRequestWrite(r)
    \/ \E r \in Callers : sendRequestWritten(r)
    \/ \E r \in Callers : sendReportRequest(r)
    \/ \E r \in Callers : sendReportRequestWrite(r)
    \/ \E r \in Callers : sendReportRequestWritten(r)
    \/ \E r \in Callers : ReceiveResponse(r)
    \/ \E r \in Callers : ContextDone(r)
    \/ \E r \in Callers : RequestTimeout(r)
    \/ ReadLoop
    \/ ReadReply
    \/ ReadError
    \/ ConnectionLost
    \/ Close

SessionSpec == SessionInit /\ [][SessionNext]_vars

\* A goroutine inside a request goes on: its writes return and the timer
\* of its select fires.
SessionFairSpec == SessionSpec /\ \A r \in Callers : WF_vars(RequestStep(r))

(***************************************************************************)
(* Streamed export: GitExportStreaming and its ChunkAssembler              *)
(***************************************************************************)
\* The data of a chunk.
ChunkData == {<<"a">>, <<"b">>}

\* ChunkAssembler.AddChunk: a.chunks[seq] = data
AddChunk(chunks, seq, data) ==
    [i \in DOMAIN chunks \cup {seq} |-> IF i = seq THEN data ELSE chunks[i]]

\* The loop of Assemble from i on: sb.WriteString(a.chunks[i]); a seq that
\* is not in the map gives the empty string.
RECURSIVE AssembleFrom(_, _, _)
AssembleFrom(chunks, i, totalChunks) ==
    IF i > totalChunks
    THEN <<>>
    ELSE (IF i \in DOMAIN chunks THEN chunks[i] ELSE <<>>)
         \o AssembleFrom(chunks, i + 1, totalChunks)

\* ChunkAssembler.Assemble
Assemble(chunks, totalChunks) == AssembleFrom(chunks, 1, totalChunks)

StreamInit ==
    /\ requests = <<>>
    /\ server = [source |-> "old", locked |-> FALSE]
    /\ wf = "none"
    /\ pc = "idle"
    /\ result = NewResult
    /\ lock = NoLock
    /\ deferred = FALSE
    /\ safety = UnrestrictedSafetyConfig
    /\ ret = NoCall
    /\ dep = NoDeploy
    /\ ws = NewAMDPWebSocketClient
    /\ parse = NoParse

\* GitExportStreaming up to its loop: the message is sent (stream=true) and
\* an empty assembler made.  A send error is returned.
CallGitExportStreaming ==
    /\ ret.op = "none"
    /\ UNCHANGED <<requests, server, wfVars, safety, dep, ws, parse>>
    /\ \E ok \in BOOLEAN :
        ret' = IF ok
               THEN Returned("GitExportStreaming",
                             [chunks |-> <<>>, progress |-> FALSE, totalChunks |-> 0,
                              ZipBase64 |-> <<>>], "running", Nil)
               ELSE Returned("GitExportStreaming", <<>>, "failed", "send failed")

\* case "progress": onProgress(prog.Done, prog.Total)
StreamProgress ==
    /\ ret.op = "GitExportStreaming"
    /\ ret.kind = "running"
    /\ UNCHANGED <<requests, server, wfVars, safety, dep, ws, parse>>
    /\ ret' = [ret EXCEPT !.arg.progress = TRUE]

\* case "chunk": assembler.AddChunk(chunk.Seq, chunk.Data)
StreamChunk ==
    /\ ret.op = "GitExportStreaming"
    /\ ret.kind = "running"
    /\ UNCHANGED <<requests, server, wfVars, safety, dep, ws, parse>>
    /\ \E seq \in 1..MaxChunks, data \in ChunkData :
        ret' = [ret EXCEPT !.arg.chunks = AddChunk(@, seq, data)]

\* case "complete": the result with assembler.Assemble(complete.TotalChunks)
\* is returned; a complete message without objectCount makes the type
\* assertion panic.
StreamComplete ==
    /\ ret.op = "GitExportStreaming"
    /\ ret.kind = "running"
    /\ UNCHANGED <<requests, server, wfVars, safety, dep, ws, parse>>
    /\ \E total \in 0..MaxChunks, hasCount \in BOOLEAN :
        ret' = IF hasCount
               THEN [ret EXCEPT !.kind = "ok", !.arg.totalChunks = total,
                                !.arg.ZipBase64 = Assemble(ret.arg.chunks, total)]
               ELSE [ret EXCEPT !.kind = "panicked", !.arg.totalChunks = total]

\* case "error", a read error, or the cancelled context: the error is
\* returned.
StreamError ==
    /\ ret.op = "GitExportStreaming"
    /\ ret.kind = "running"
    /\ UNCHANGED <<requests, server, wfVars, safety, dep, ws, parse>>
    /\ \E err \in {"export failed", "read failed", "context canceled"} :
        ret' = [ret EXCEPT !.kind = "failed", !.err = err]

StreamNext ==
    \/ CallGitExportStreaming
    \/ StreamProgress
    \/ StreamChunk
    \/ StreamComplete
    \/ StreamError

StreamSpec == StreamInit /\ [][StreamNext]_vars

(***************************************************************************)
(* DeployZip: handleDeployZip                                              *)
(***************************************************************************)
\* The arguments callers pass: source, package, type_filter, name_filter.
Sources == {"", "abapgit-standalone", "unknown"}
Packages == {<<>>, <<"$", "z">>}
TypeFilters == {<<>>, <<"c", "l", "a", "s">>, DOMA}
NameFilters == {<<>>, <<"*">>, <<"z", "a", "*">>}

\* The lock handles the server hands out, one per object of the plan.
Handles == <<"H1", "H2">>

\* Whether an object of the plan passes the type filter and the name filter.
PassesFilters(obj, typeFilter, nameFilter) ==
    /\ ~(typeFilter # <<>> /\ obj.Type # typeFilter)
    /\ ~(nameFilter # <<>> /\ ~Contains(obj.Name, RemoveAll(nameFilter, "*")))

\* The objects of the plan that pass the filters and are (wanted = TRUE) or
\* are not (wanted = FALSE) of a type in objectTypeMapping.
Classify(objects, typeFilter, nameFilter, wanted) ==
    SelectSeq(objects,
              LAMBDA obj : /\ PassesFilters(obj, typeFilter, nameFilter)
                           /\ (obj.Type \in DeployableTypes) = wanted)

\* Where the handler goes once the plan is shown, with the dry-run check left out.
AfterPlan_IgnoreDryRun(dryRun, deployable) ==
    IF Len(deployable) = 0 THEN "done" ELSE "GetPackage"

\* Where the handler goes once the plan is shown.
AfterPlan(dryRun, deployable) ==
    IF dryRun THEN "done"
    ELSE IF Len(deployable) = 0 THEN "done"
    ELSE "GetPackage"

\* What the handler has returned once the plan is shown, if it returns there.
PlanResult(dryRun, deployable) ==
    IF dryRun THEN NewToolResultText("Dry run - no changes made.")
    ELSE IF Len(deployable) = 0 THEN NewToolResultText("Nothing to deploy.")
    ELSE NoToolResult

\* An early return with an error result; dryRun keeps the dry_run argument.
ReturnError(msg, dryRun) ==
    [NoDeploy EXCEPT !.pc = "done", !.dryRun = dryRun, !.out = newToolResultError(msg)]

\* The handler up to the end of the plan.
PlanStep(source, package, dryRun, typeFilter, nameFilter, zipData) ==
    IF source = "" THEN ReturnError("source is required", dryRun)
    ELSE IF package = <<>> THEN ReturnError("package is required", dryRun)
    ELSE IF zipData.nil THEN ReturnError("Source not found", dryRun)
    ELSE IF ~zipData.valid THEN ReturnError("Failed to parse ZIP", dryRun)
    ELSE LET objects == CreateDeploymentPlan(zipData.files)
             deployable == Classify(objects, ToUpper(typeFilter), ToUpper(nameFilter), TRUE)
             skipped == Classify(objects, ToUpper(typeFilter), ToUpper(nameFilter), FALSE)
         IN  [NoDeploy EXCEPT !.pc = AfterPlan(dryRun, deployable),
                              !.dryRun = dryRun,
                              !.package = ToUpper(package),
                              !.deployable = deployable,
                              !.skipped = skipped,
                              !.out = PlanResult(dryRun, deployable)]

DeployInit ==
    /\ requests = <<>>
    /\ server = [source |-> "old", locked |-> FALSE]
    /\ wf = "none"
    /\ pc = "idle"
    /\ result = NewResult
    /\ lock = NoLock
    /\ deferred = FALSE
    /\ safety = UnrestrictedSafetyConfig
    /\ ret = NoCall
    /\ dep = NoDeploy
    /\ ws = NewAMDPWebSocketClient
    /\ parse = NoParse

\* The call of the handler: arguments, ZIP lookup, plan, filters, and the
\* returns that happen before the first request.
handleDeployZip ==
    /\ dep.pc = "idle"
    /\ ret.op = "none"
    /\ UNCHANGED <<requests, server, wfVars, gateVars, ws, parse>>
    /\ \E source \in Sources, package \in Packages, dryRun \in BOOLEAN,
          typeFilter \in TypeFilters, nameFilter \in NameFilters :
        \E zipData \in GetDependencyZIP(source) :
            dep' = [PlanStep(source, package, dryRun, typeFilter, nameFilter, zipData)
                      EXCEPT !.args = [source |-> source, package |-> package]]

\* Ensure package exists: GetPackage.
GetPackage ==
    /\ dep.pc = "GetPackage"
    /\ UNCHANGED <<server, wfVars, gateVars, ws, parse>>
    /\ \E found \in BOOLEAN :
        /\ requests' = Request(requests, "GetPackage", "", found)
        /\ dep' = [dep EXCEPT !.pc = IF found THEN "Phase1" ELSE "CreatePackage",
                              !.i = 1]

\* The texts the handler looks for in the error of a CreateObject.
AlreadyExists == <<"A", "l", "r", "e", "a", "d", "y", "E", "x", "i", "s", "t", "s">>
alreadyExist == <<"a", "l", "r", "e", "a", "d", "y", " ", "e", "x", "i", "s", "t">>

\* The errors CreateObject returns, as err.Error(); <<>> is the nil error.
CreateErrors ==
    {<<>>,
     <<"R", "e", "s">> \o AlreadyExists,
     <<"d", "i", "d", " ">> \o alreadyExist \o <<"s">>,
     <<"l", "o", "c", "k", "e", "d">>}

\* The already-exists test with the first of the two texts only.
IsAlreadyExists_FirstTextOnly(err) == Contains(err, AlreadyExists)

\* strings.Contains(err.Error(), "AlreadyExists") || strings.Contains(err.Error(), "already exist")
IsAlreadyExists(err) == Contains(err, AlreadyExists) \/ Contains(err, alreadyExist)

\* Ensure package exists: CreateObject for the package.
CreatePackage ==
    /\ dep.pc = "CreatePackage"
    /\ UNCHANGED <<server, wfVars, gateVars, ws, parse>>
    /\ \E err \in CreateErrors :
        /\ requests' = Request(requests, "CreatePackage", "", err = <<>>)
        /\ dep' = IF err # <<>> /\ ~IsAlreadyExists(err)
                  THEN [dep EXCEPT !.pc = "done",
                                   !.out = newToolResultError("Failed to create package")]
                  ELSE [dep EXCEPT !.pc = "Phase1"]

\* The loop of a phase left after its first iteration.
NextObject_StopAfterFirst(phase, after) == [pc |-> after, i |-> 1]

\* The statement after the loop body of a phase ran for object dep.i.
NextObject(phase, after) ==
    IF dep.i < Len(dep.deployable) THEN [pc |-> phase, i |-> dep.i + 1]
    ELSE [pc |-> after, i |-> 1]

\* Phase 1, one iteration: CreateObject for object dep.i.
Phase1CreateObject ==
    /\ dep.pc = "Phase1"
    /\ UNCHANGED <<server, wfVars, gateVars, ws, parse>>
    /\ \E err \in CreateErrors :
        /\ requests' = Request(requests, "CreateObject", Handles[dep.i], err = <<>>)
        /\ dep' = [dep EXCEPT
                     !.pc = NextObject("Phase1", "Phase2Lock").pc,
                     !.i = NextObject("Phase1", "Phase2Lock").i,
                     !.createErrs = Append(@, err),
                     !.createSuccess = @ + (IF err = <<>> THEN 1 ELSE 0),
                     !.createSkipped =
                         @ + (IF err # <<>> /\ IsAlreadyExists(err) THEN 1 ELSE 0),
                     !.createFailed =
                         @ + (IF err # <<>> /\ ~IsAlreadyExists(err) THEN 1 ELSE 0)]

\* Phase 2, one iteration: LockObject for object dep.i.
Phase2LockObject ==
    /\ dep.pc = "Phase2Lock"
    /\ UNCHANGED <<server, wfVars, gateVars, ws, parse>>
    /\ \E ok \in BOOLEAN :
        /\ requests' = Request(requests, "Lock", Handles[dep.i], ok)
        /\ dep' = IF ok
                  THEN [dep EXCEPT !.pc = "Phase2UpdateSource",
                                   !.lockHandle = Handles[dep.i]]
                  ELSE [dep EXCEPT !.pc = NextObject("Phase2Lock", "Phase3").pc,
                                   !.i = NextObject("Phase2Lock", "Phase3").i,
                                   !.uploadFailed = @ + 1]

\* Phase 2 upload with a syntax check of the source before the UpdateSource.
Phase2UpdateSource_WithSyntaxCheck ==
    /\ dep.pc = "Phase2UpdateSource"
    /\ UNCHANGED <<server, wfVars, gateVars, ws, parse>>
    /\ \E ok \in BOOLEAN :
        /\ requests' = Request(Request(requests, "SyntaxCheck", dep.lockHandle, TRUE),
                               "UpdateSource", dep.lockHandle, ok)
        /\ dep' = [dep EXCEPT !.pc = IF ok THEN "Phase2Unlock" ELSE "Phase2UnlockAfterFail"]

\* Phase 2: UpdateSource of the main source under the lock handle.
Phase2UpdateSource ==
    /\ dep.pc = "Phase2UpdateSource"
    /\ UNCHANGED <<server, wfVars, gateVars, ws, parse>>
    /\ \E ok \in BOOLEAN :
        /\ requests' = Request(requests, "UpdateSource", dep.lockHandle, ok)
        /\ dep' = [dep EXCEPT !.pc = IF ok THEN "Phase2Unlock" ELSE "Phase2UnlockAfterFail"]

\* Phase 2 after a failed upload with the failure recorded and no UnlockObject.
Phase2UnlockAfterFail_NoUnlock ==
    /\ dep.pc = "Phase2UnlockAfterFail"
    /\ UNCHANGED <<requests, server, wfVars, gateVars, ws, parse>>
    /\ dep' = [dep EXCEPT !.pc = NextObject("Phase2Lock", "Phase3").pc,
                          !.i = NextObject("Phase2Lock", "Phase3").i,
                          !.lockHandle = "",
                          !.uploadFailed = @ + 1]

\* Phase 2: the UnlockObject after a failed upload, then the failure is recorded.
Phase2UnlockAfterFail ==
    /\ dep.pc = "Phase2UnlockAfterFail"
    /\ UNCHANGED <<server, wfVars, gateVars, ws, parse>>
    /\ \E ok \in BOOLEAN :
        /\ requests' = Request(requests, "Unlock", dep.lockHandle, ok)
        /\ dep' = [dep EXCEPT !.pc = NextObject("Phase2Lock", "Phase3").pc,
                              !.i = NextObject("Phase2Lock", "Phase3").i,
                              !.lockHandle = "",
                              !.uploadFailed = @ + 1]

\* Phase 2: the UnlockObject after the upload; its error is not fatal.
Phase2UnlockObject ==
    /\ dep.pc = "Phase2Unlock"
    /\ UNCHANGED <<server, wfVars, gateVars, ws, parse>>
    /\ \E ok \in BOOLEAN :
        /\ requests' = Request(requests, "Unlock", dep.lockHandle, ok)
        /\ dep' = [dep EXCEPT !.pc = NextObject("Phase2Lock", "Phase3").pc,
                              !.i = NextObject("Phase2Lock", "Phase3").i,
                              !.lockHandle = "",
                              !.uploadSuccess = @ + 1]

\* The objects of the package that are inactive when activation starts.
InactiveAtStart == Len(dep.deployable)

\* Phase 3: one pass of ActivatePackageIterative(ctx, packageName, 5).  A
\* pass activates the package and leaves some of the inactive objects
\* inactive; the passes stop as ActivationPass says.  A pass whose request
\* fails ends the function with an error.
Phase3ActivatePass ==
    /\ dep.pc = "Phase3"
    /\ UNCHANGED <<server, wfVars, gateVars, ws, parse>>
    /\ LET it == IF dep.passes = 0 THEN NewIteration(InactiveAtStart)
                  ELSE [passes |-> dep.passes, inactive |-> dep.inactive,
                        prev |-> dep.inactivePrev, stopped |-> FALSE]
       IN  \E ok \in BOOLEAN :
            /\ requests' = Request(requests, "ActivatePackage", "", ok)
            /\ IF ~ok
               THEN dep' = [dep EXCEPT !.pc = "Summary", !.activationError = TRUE]
               ELSE \E left \in 0..it.inactive :
                      LET next == ActivationPass(it, MaxPasses, left)
                      IN  dep' = [dep EXCEPT
                                    !.passes = next.passes,
                                    !.inactive = next.inactive,
                                    !.inactivePrev = next.prev,
                                    !.pc = IF next.stopped THEN "Summary" ELSE "Phase3"]

\* The summary and the return of the handler.
Summary ==
    /\ dep.pc = "Summary"
    /\ UNCHANGED <<requests, server, wfVars, gateVars, ws, parse>>
    /\ dep' = [dep EXCEPT !.pc = "done",
                          !.out = NewToolResultText("Deployment complete")]

DeployNext ==
    \/ handleDeployZip
    \/ GetPackage
    \/ CreatePackage
    \/ Phase1CreateObject
    \/ Phase2LockObject
    \/ Phase2UpdateSource
    \/ Phase2UnlockAfterFail
    \/ Phase2UnlockObject
    \/ Phase3ActivatePass
    \/ Summary

DeploySpec == DeployInit /\ [][DeployNext]_vars

(***************************************************************************)
(* Tool handlers: handleWriteProgram, handleUpdateSource, handleDeployZip  *)
(***************************************************************************)
\* request.Params.Arguments[name].(string): ok is whether the argument is
\* there and is a string, s its value (the empty string when not ok).
ArgValues ==
    {[ok |-> FALSE, s |-> ""], [ok |-> TRUE, s |-> ""], [ok |-> TRUE, s |-> "ZTEST"]}

\* if !ok || programName == ""
IsMissing_TypeOnly(arg) == ~arg.ok

IsMissing(arg) == ~arg.ok \/ arg.s = ""

\* handleWriteProgram: program_name and source are required; with both the
\* handler calls WriteProgram.
handleWriteProgram ==
    /\ ret.op = "none"
    /\ dep.pc = "idle"
    /\ pc = "idle"
    /\ UNCHANGED <<requests, server, lock, deferred, safety, dep, ws, parse>>
    /\ \E programName \in ArgValues, source \in ArgValues :
        LET args == [program_name |-> programName, source |-> source]
        IN  IF IsMissing(programName)
            THEN /\ ret' = Returned("handleWriteProgram", args, "invalid",
                                     "program_name is required")
                 /\ UNCHANGED <<wf, pc, result>>
            ELSE IF IsMissing(source)
            THEN /\ ret' = Returned("handleWriteProgram", args, "invalid",
                                     "source is required")
                 /\ UNCHANGED <<wf, pc, result>>
            ELSE /\ ret' = Returned("handleWriteProgram", args, "called", Nil)
                 /\ wf' = "WriteProgram"
                 /\ pc' = FirstStep("WriteProgram")
                 /\ result' = NewResult

\* handleWriteProgram after WriteProgram returned: the result as text.
handleWriteProgramReturn ==
    /\ ret.op = "handleWriteProgram"
    /\ ret.kind = "called"
    /\ pc = "done"
    /\ UNCHANGED <<requests, server, wfVars, safety, dep, ws, parse>>
    /\ ret' = [ret EXCEPT !.kind = "ok"]

\* handleUpdateSource: object_url, source and lock_handle are required; with
\* all three the handler calls UpdateSource and returns its outcome.
handleUpdateSource ==
    /\ ret.op = "none"
    /\ dep.pc = "idle"
    /\ pc = "idle"
    /\ UNCHANGED <<server, wfVars, safety, dep, ws, parse>>
    /\ \E objectURL \in ArgValues, source \in ArgValues, lockHandle \in ArgValues :
        LET args == [object_url |-> objectURL, source |-> source,
                     lock_handle |-> lockHandle]
        IN  IF IsMissing(objectURL)
            THEN /\ ret' = Returned("handleUpdateSource", args, "invalid",
                                     "object_url is required")
                 /\ UNCHANGED requests
            ELSE IF IsMissing(source)
            THEN /\ ret' = Returned("handleUpdateSource", args, "invalid",
                                     "source is required")
                 /\ UNCHANGED requests
            ELSE IF IsMissing(lockHandle)
            THEN /\ ret' = Returned("handleUpdateSource", args, "invalid",
                                     "lock_handle is required")
                 /\ UNCHANGED requests
            ELSE \E ok \in BOOLEAN :
                   /\ requests' = Request(requests, "UpdateSource", lockHandle.s, ok)
                   /\ ret' = Returned("handleUpdateSource", args,
                                       IF ok THEN "ok" ELSE "failed",
                                       IF ok THEN Nil ELSE "Failed to update source")

HandlerInit ==
    /\ requests = <<>>
    /\ server = [source |-> "old", locked |-> FALSE]
    /\ wf = "none"
    /\ pc = "idle"
    /\ result = NewResult
    /\ lock = NoLock
    /\ deferred = FALSE
    /\ safety = UnrestrictedSafetyConfig
    /\ ret = NoCall
    /\ dep = NoDeploy
    /\ ws = NewAMDPWebSocketClient
    /\ parse = NoParse

\* One tool call: the handler, then the steps of the engine it calls.
HandlerNext ==
    \/ handleWriteProgram
    \/ SyntaxCheck
    \/ Lock
    \/ UpdateSource
    \/ Unlock
    \/ Activate
    \/ Return
    \/ handleWriteProgramReturn
    \/ handleUpdateSource
    \/ handleDeployZip
    \/ GetPackage
    \/ CreatePackage
    \/ Phase1CreateObject
    \/ Phase2LockObject
    \/ Phase2UpdateSource
    \/ Phase2UnlockAfterFail
    \/ Phase2UnlockObject
    \/ Phase3ActivatePass
    \/ Summary

HandlerSpec == HandlerInit /\ [][HandlerNext]_vars

(***************************************************************************)
(* ParseABAPFile and parseFromContent                                      *)
(***************************************************************************)
\* A caller calls ParseABAPFile(filePath).
CallParseABAPFile ==
    /\ parse.pc = "idle"
    /\ UNCHANGED <<adtVars, ws>>
    /\ \E f \in Files :
        parse' = [NoParse EXCEPT !.pc = "ParseABAPFile", !.file = f]

\* ParseABAPFile(filePath): with a compound extension the lines are scanned
\* for the name; with the generic .abap it returns parseFromContent(filePath);
\* any other extension is an error.
ParseABAPFile ==
    /\ parse.pc = "ParseABAPFile"
    /\ UNCHANGED <<adtVars, ws>>
    /\ LET type == ObjectTypeOf(parse.file.suffix)
           name == ScanName(type, parse.file.content)
       IN  IF type # ""
           THEN IF name = ""
                THEN parse' = [parse EXCEPT !.pc = "returned",
                                 !.err = "could not parse object name from file"]
                ELSE parse' = [parse EXCEPT !.pc = "returned",
                                 !.info = [ObjectType |-> type, ObjectName |-> name]]
           ELSE IF parse.file.suffix = ".abap"
           THEN parse' = [parse EXCEPT !.pc = "parseFromContent"]
           ELSE parse' = [parse EXCEPT !.pc = "returned",
                            !.err = "unsupported file extension"]

\* parseFromContent(filePath): at the first line with a CLASS ... DEFINITION,
\* REPORT, PROGRAM, INTERFACE, FUNCTION-POOL or FUNCTION statement it returns
\* ParseABAPFile(filePath), with the same path; without such a line it
\* returns an error.
parseFromContent ==
    /\ parse.pc = "parseFromContent"
    /\ UNCHANGED <<adtVars, ws>>
    /\ IF \E i \in DOMAIN parse.file.content :
             parse.file.content[i] \in DetectStatements
       THEN parse' = [parse EXCEPT !.pc = "ParseABAPFile"]
       ELSE parse' = [parse EXCEPT !.pc = "returned",
                        !.err = "could not detect object type from file content"]

ParseInit ==
    /\ requests = <<>>
    /\ server = [source |-> "old", locked |-> FALSE]
    /\ wf = "none"
    /\ pc = "idle"
    /\ result = NewResult
    /\ lock = NoLock
    /\ deferred = FALSE
    /\ safety = UnrestrictedSafetyConfig
    /\ ret = NoCall
    /\ dep = NoDeploy
    /\ ws = NewAMDPWebSocketClient
    /\ parse = NoParse

ParseNext ==
    \/ CallParseABAPFile
    \/ ParseABAPFile
    \/ parseFromContent

ParseSpec == ParseInit /\ [][ParseNext]_vars

\* A function that is executing goes on executing.
ParseFairSpec ==
    ParseSpec /\ WF_vars(ParseABAPFile) /\ WF_vars(parseFromContent)

(***************************************************************************)
(* Properties of DeployZip (checked under DeploySpec)                      *)
(***************************************************************************)
\* C5: a DeployZip run with dry_run=true, over any archive and any type and
\* name filter, sends no request to the server (no GetPackage, Create, Lock,
\* PUT, Unlock or Activate); it returns, and what it returns is the plan
\* (or the error of a rejected argument or archive).
C5_DryRunSendsNothing ==
    dep.dryRun =>
        /\ requests = <<>>
        /\ dep.pc = "done"
        /\ \/ dep.out.isError
           \/ dep.out = NewToolResultText("Dry run - no changes made.")
        /\ dep.i = 0

\* C5 witness: a dry run over an archive with two deployable objects and a
\* skipped one has returned the plan, and the request log is empty.
C5_Witness ==
    /\ dep.dryRun
    /\ dep.pc = "done"
    /\ dep.out = NewToolResultText("Dry run - no changes made.")
    /\ Len(dep.deployable) = 2
    /\ Len(dep.skipped) = 1
    /\ requests = <<>>

\* The run has returned from a deployment proper: not a dry run, something
\* to deploy.
DeployReturned ==
    /\ dep.pc = "done"
    /\ ~dep.dryRun
    /\ Len(dep.deployable) > 0

\* The requests of operation op issued for object k of the deployable list.
RequestsFor(op, k) == {j \in Issued(op) : requests[j].handle = Handles[k]}

\* Every deployable object has had its Create (Phase 1), every one its Lock
\* (Phase 2), and the activation (Phase 3) has been started.
AllPhasesAttempted ==
    /\ \A k \in DOMAIN dep.deployable : RequestsFor("CreateObject", k) # {}
    /\ \A k \in DOMAIN dep.deployable : RequestsFor("Lock", k) # {}
    /\ Issued("ActivatePackage") # {}

AnyObjectFailed ==
    \/ dep.createFailed > 0
    \/ dep.uploadFailed > 0
    \/ dep.activationError
    \/ dep.passes > 0 /\ dep.inactive > 0

Phase2LeftObject(k) ==
    \/ dep.pc \in {"Phase3", "Summary"}
    \/ DeployReturned /\ dep.out # newToolResultError("Failed to create package")
    \/ /\ dep.pc \in {"Phase2Lock", "Phase2UpdateSource", "Phase2Unlock",
                        "Phase2UnlockAfterFail"}
       /\ dep.i > k

\* C15: in Phase 2, for every object whose Lock succeeded exactly one Unlock
\* for its lock handle is issued before the next object is processed, after a
\* successful PUT and after a failed one; no Unlock is issued without the
\* lock, no request of a later object precedes it, and an upload failure is
\* counted only once the Unlock has been attempted.
C15_OneUnlockPerLockedObject ==
    /\ \A k \in DOMAIN dep.deployable :
          LET locked == \E j \in RequestsFor("Lock", k) : requests[j].ok
              unlocks == RequestsFor("Unlock", k)
          IN  /\ Cardinality(unlocks) <= 1
              /\ unlocks # {} =>
                    /\ locked
                    /\ \E p \in RequestsFor("UpdateSource", k) :
                          \A u \in unlocks : p < u
              /\ (locked /\ Phase2LeftObject(k)) => Cardinality(unlocks) = 1
              /\ \A u \in unlocks :
                    \A k2 \in DOMAIN dep.deployable :
                        k2 > k => \A j \in RequestsFor("Lock", k2) : u < j
    /\ dep.uploadFailed =
          Cardinality({k \in DOMAIN dep.deployable :
                          \E j \in RequestsFor("Lock", k) : ~requests[j].ok})
          + Cardinality({k \in DOMAIN dep.deployable :
                          /\ \E j \in RequestsFor("UpdateSource", k) : ~requests[j].ok
                          /\ RequestsFor("Unlock", k) # {}})

\* C15 witness: a run has returned in which the PUT of the first object
\* failed and the PUT of the second succeeded; each of the two lock handles
\* has exactly one Unlock, and one upload failure is counted.
C15_Witness ==
    /\ DeployReturned
    /\ Len(dep.deployable) >= 2
    /\ \E j \in RequestsFor("UpdateSource", 1) : ~requests[j].ok
    /\ \E j \in RequestsFor("UpdateSource", 2) : requests[j].ok
    /\ Cardinality(RequestsFor("Unlock", 1)) = 1
    /\ Cardinality(RequestsFor("Unlock", 2)) = 1
    /\ dep.uploadFailed = 1

\* The operations of the requests issued for object k after its Create, in order.
UploadOf(k) ==
    LET ForObject(r) == r.handle = Handles[k] /\ r.op # "CreateObject"
        mine == SelectSeq(requests, ForObject)
    IN  [j \in DOMAIN mine |-> mine[j].op]

\* The request sequences of one object's upload, complete or cut short by a failure.
UploadShapes ==
    {<<>>, <<"Lock">>, <<"Lock", "UpdateSource">>, <<"Lock", "UpdateSource", "Unlock">>}

\* C16: in a DeployZip run with dry_run=false no syntax-check request is
\* issued: between the last Create of Phase 1 and the activation of Phase 3
\* the only requests are Lock, PUT and Unlock, and the upload of each object
\* consists of Lock, PUT main source, Unlock in this order.
C16_NoSyntaxCheckInPhase2 ==
    ~dep.dryRun =>
        /\ Issued("SyntaxCheck") = {}
        /\ \A j \in DOMAIN requests :
              requests[j].op \in {"GetPackage", "CreatePackage", "CreateObject", "Lock",
                                  "UpdateSource", "Unlock", "ActivatePackage"}
        /\ \A j \in DOMAIN requests :
              (/\ \E c \in Issued("CreateObject") : c < j
               /\ \A c \in Issued("CreateObject") : c < j
               /\ \A a \in Issued("ActivatePackage") : j < a)
              => requests[j].op \in {"Lock", "UpdateSource", "Unlock"}
        /\ \A k \in DOMAIN dep.deployable : UploadOf(k) \in UploadShapes
        /\ dep.uploadSuccess =
              Cardinality({k \in DOMAIN dep.deployable :
                              UploadOf(k) = <<"Lock", "UpdateSource", "Unlock">>
                              /\ \E j \in RequestsFor("UpdateSource", k) : requests[j].ok})

\* C16 witness: a run with dry_run=false has returned after the first object
\* was uploaded with Lock, PUT, Unlock, all successful, and counted as
\* uploaded.
C16_Witness ==
    /\ DeployReturned
    /\ UploadOf(1) = <<"Lock", "UpdateSource", "Unlock">>
    /\ \A j \in DOMAIN requests : requests[j].handle = Handles[1] => requests[j].ok
    /\ dep.uploadSuccess >= 1

\* The objects whose Create was answered with an error text satisfying P.
CreatesAnswered(P(_)) == {k \in DOMAIN dep.createErrs : P(dep.createErrs[k])}

\* C17: in Phase 1 a Create answered with an already-exists response (text
\* containing "AlreadyExists" or "already exist") is counted as existed and
\* never as a failure, for every object of the plan: the existed counter is
\* the number of such answers and the failed counter the number of the
\* other errors.
C17_AlreadyExistsCountsAsExisted ==
    LET Existed(err) == Contains(err, AlreadyExists) \/ Contains(err, alreadyExist)
        Created(err) == err = <<>>
        Failed(err) == err # <<>> /\ ~Existed(err)
    IN  /\ dep.createSkipped = Cardinality(CreatesAnswered(Existed))
        /\ dep.createSuccess = Cardinality(CreatesAnswered(Created))
        /\ dep.createFailed = Cardinality(CreatesAnswered(Failed))
        /\ dep.pc \in {"Phase2Lock", "Phase3", "Summary"} =>
              Len(dep.createErrs) = Len(dep.deployable)

\* C17 witness: a run has returned in which the Create of the first object
\* was answered "... AlreadyExists" and that of the second "... already
\* exists"; both are counted as existed and no failure is counted.
C17_Witness ==
    /\ DeployReturned
    /\ Len(dep.createErrs) = 2
    /\ Contains(dep.createErrs[1], AlreadyExists)
    /\ Contains(dep.createErrs[2], alreadyExist)
    /\ dep.createSkipped = 2
    /\ dep.createFailed = 0

(***************************************************************************)
(* Properties of the workflows (checked under WorkflowSpec)                *)
(***************************************************************************)
\* The Unlock requests issued for the handle the workflow's lock returned.
UnlocksOfLock ==
    {i \in Issued("Unlock") : requests[i].handle = lock.LockHandle}

\* The rank of a request in the order syntax-check, Lock, PUT, Unlock, Activate.
StepRank(op) ==
    CASE op = "SyntaxCheck" -> 1
      [] op = "Lock" -> 2
      [] op = "UpdateSource" -> 3
      [] op = "Unlock" -> 4
      [] op = "Activate" -> 5
      [] OTHER -> 0

\* C1: in each of the four workflows, once LockObject has succeeded, an
\* UnlockObject request for the returned handle has been issued by the time
\* the workflow has returned, whichever later step failed or succeeded.
C1_UnlockIssuedOnEveryExit ==
    (pc = "done" /\ lock.ok) => UnlocksOfLock # {}

\* C1 witness: a workflow has returned after its lock succeeded and its PUT
\* failed, and the unlock for the handle is in the log.
C1_Witness ==
    /\ pc = "done"
    /\ lock.ok
    /\ \E i \in Issued("UpdateSource") : ~requests[i].ok
    /\ UnlocksOfLock # {}

\* C2: when a workflow that acquired a lock has returned, exactly one
\* UnlockObject call has been issued for that lock handle.
C2_ExactlyOneUnlock ==
    (pc = "done" /\ lock.ok) => Cardinality(UnlocksOfLock) = 1

WriteOps == {OpCreate, OpUpdate, OpDelete, OpActivate, OpWorkflow}

TransportOps == ClassGatedOps \cup TransportGatedOps

\* The error of the safety check the returned operation r evaluated.
SafetyCheckOf(r) ==
    CASE r.op \in ClassGatedOps -> checkSafety(safety, OpTransport)
      [] r.op \in {"ListTransports", "CreateTransportV2"} ->
            CheckTransport(safety, <<>>, r.op = "CreateTransportV2")
      [] r.op = "GetTransport" -> CheckTransport(safety, r.arg, FALSE)
      [] r.op \in {"ReleaseTransportV2", "DeleteTransport"} ->
            CheckTransport(safety, r.arg, TRUE)
      [] OTHER -> Nil

\* C6: each of the nine transport-management operations evaluates its safety
\* check before any network I/O: when the check denies the operation, the
\* operation returns that denial and no request has been sent; and an
\* operation that returned a denial has sent no request.
C6_SafetyCheckBeforeRequest ==
    ret.op \in TransportOps =>
        /\ SafetyCheckOf(ret) # Nil =>
              /\ ret.kind = "blocked"
              /\ ret.err = SafetyCheckOf(ret)
              /\ requests = <<>>
        /\ ret.kind = "blocked" => requests = <<>>
        /\ requests # <<>> => SafetyCheckOf(ret) = Nil

\* C6 witness: ReleaseTransportV2 on a well-formed number was denied by the
\* transport read-only rule while transports are enabled, with no request sent.
C6_Witness ==
    /\ ret.op = "ReleaseTransportV2"
    /\ ret.arg = DEVK900001
    /\ safety.EnableTransports /\ safety.TransportReadOnly
    /\ ret.kind = "blocked"
    /\ requests = <<>>

\* C7: with dry-run off and read-only on, the gate denies Create, Update,
\* Delete, Activate and Workflow whatever the allow-list and the deny-list
\* hold, and CheckOperation returns the denial for them.
C7_ReadOnlyDeniesWrites ==
    (~safety.DryRun /\ safety.ReadOnly) =>
        /\ \A op \in WriteOps :
              /\ ~IsOperationAllowed(safety, op)
              /\ CheckOperation(safety, op) # Nil
        /\ (ret.op = "CheckOperation" /\ ret.arg[1] \in WriteOps) =>
              ret.kind = "blocked"

\* C7 witness: CheckOperation(Workflow) was denied under read-only although
\* the allow-list names Workflow and the deny-list does not.
C7_Witness ==
    /\ ~safety.DryRun /\ safety.ReadOnly
    /\ safety.AllowedOps = <<OpWorkflow>>
    /\ ~ContainsRune(safety.DisallowedOps, OpWorkflow)
    /\ ret.op = "CheckOperation"
    /\ ret.arg = <<OpWorkflow>>
    /\ ret.kind = "blocked"

\* C8: with transport-read-only set, every CreateTransport call, through
\* CreateTransport and through CreateTransportV2, with transports enabled or
\* not, returns a blocked-by-policy error before any request is sent.
C8_CreateBlockedWhenTransportReadOnly ==
    (safety.TransportReadOnly /\ ret.op \in {"CreateTransport", "CreateTransportV2"}) =>
        /\ ret.kind = "blocked"
        /\ requests = <<>>

\* C9: with dry-run off and transports not enabled, every transport-class
\* operation is denied: IsOperationAllowed(Transport) is false, CheckTransport
\* returns an error for every transport number, read and write, whatever the
\* allow-list and AllowedTransports hold, and every transport operation
\* returns the denial without a request.
C9_TransportsDeniedUnlessEnabled ==
    (~safety.DryRun /\ ~safety.EnableTransports) =>
        /\ ~IsOperationAllowed(safety, OpTransport)
        /\ \A t \in TransportNumbers, isWrite \in BOOLEAN :
              CheckTransport(safety, t, isWrite) # Nil
        /\ ret.op = "CheckTransport" => ret.kind = "blocked"
        /\ (ret.op = "CheckOperation" /\ ret.arg = <<OpTransport>>) =>
              ret.kind = "blocked"
        /\ ret.op \in TransportOps => (ret.kind = "blocked" /\ requests = <<>>)

\* C9 witness: a read CheckTransport on a number matching AllowedTransports
\* was denied while transports are not enabled and the allow-list names
\* Transport.
C9_Witness ==
    /\ ~safety.DryRun /\ ~safety.EnableTransports
    /\ safety.AllowedOps = <<OpTransport>>
    /\ Len(safety.AllowedTransports) > 0
    /\ ret.op = "CheckTransport"
    /\ ret.arg = <<A4HK900110, "R">>
    /\ ret.kind = "blocked"

\* C10: when dry-run is set the gate allows every operation class, and no
\* operation executed under dry-run, transport operations included, sends a
\* request to the server.
C10_DryRunSendsNoRequest ==
    safety.DryRun =>
        /\ \A op \in OperationTypes : IsOperationAllowed(safety, op)
        /\ requests = <<>>

\* C11: with dry-run off, an operation class named in the deny-list is
\* denied, also when the allow-list names the same class: the deny-list
\* takes precedence over the allow-list for every operation class.
C11_DenyListTakesPrecedence ==
    ~safety.DryRun =>
        /\ \A op \in OperationTypes :
              ContainsRune(safety.DisallowedOps, op) =>
                  /\ ~IsOperationAllowed(safety, op)
                  /\ CheckOperation(safety, op) # Nil
        /\ (ret.op = "CheckOperation" /\ ContainsRune(safety.DisallowedOps, ret.arg[1])) =>
              ret.kind = "blocked"

\* C11 witness: CheckOperation(Read) was denied by a configuration without
\* any other restriction whose deny-list and allow-list both name Read.
C11_Witness ==
    /\ ~safety.DryRun /\ ~safety.ReadOnly /\ ~safety.BlockFreeSQL
    /\ safety.AllowedOps = <<OpRead>>
    /\ safety.DisallowedOps = <<OpRead>>
    /\ ret.op = "CheckOperation"
    /\ ret.arg = <<OpRead>>
    /\ ret.kind = "blocked"

\* C36: the two transport gates agree: with dry-run off, when
\* IsOperationAllowed denies the transport class, ListTransports,
\* GetTransport, CreateTransportV2, ReleaseTransportV2 and DeleteTransport
\* are denied as well and have sent no request.
C36_TransportGatesAgree ==
    (/\ ~safety.DryRun
     /\ ~IsOperationAllowed(safety, OpTransport)
     /\ ret.op \in TransportGatedOps)
    => (ret.kind \notin {"ok", "failed"} /\ requests = <<>>)

(***************************************************************************)
(* Properties of the package check (checked under PackageSpec)             *)
(***************************************************************************)
\* Whether two characters are the same letter, ignoring case.
SameLetter(a, b) ==
    \/ a = b
    \/ \E i \in DOMAIN LowerLetters :
          {a, b} = {LowerLetters[i], UpperLetters[i]}

\* Whether pattern p admits package name n as the claim words it: p equals n,
\* or p ends in '*' and n starts with the part of p before the '*', letter
\* case ignored.
PatternAdmits(p, n) ==
    \/ /\ Len(p) = Len(n)
       /\ \A k \in DOMAIN p : SameLetter(p[k], n[k])
    \/ /\ Len(p) > 0
       /\ p[Len(p)] = "*"
       /\ Len(n) >= Len(p) - 1
       /\ \A k \in 1..(Len(p) - 1) : SameLetter(p[k], n[k])

\* C12: IsPackageAllowed(p) is true if and only if the allowed-package list
\* is empty or some pattern of it admits p (equal, or a '*'-suffixed prefix
\* of p, ignoring letter case); CheckPackage returns an error exactly when
\* IsPackageAllowed is false.
C12_PackageAllowedIffPatternAdmits ==
    LET Admitted(n) ==
            \/ Len(safety.AllowedPackages) = 0
            \/ \E i \in DOMAIN safety.AllowedPackages :
                  PatternAdmits(safety.AllowedPackages[i], n)
    IN  /\ \A n \in PackageNames :
              /\ IsPackageAllowed(safety, n) <=> Admitted(n)
              /\ (CheckPackage(safety, n) # Nil) <=> ~IsPackageAllowed(safety, n)
        /\ ret.op = "IsPackageAllowed" =>
              ((ret.kind = "true") <=> Admitted(ret.arg[1]))
        /\ ret.op = "CheckPackage" =>
              /\ (ret.kind = "blocked") <=> ~Admitted(ret.arg[1])
              /\ (ret.err # Nil) <=> (ret.kind = "blocked")

\* C12 witness: with the list ["$TMP", "z*"], CheckPackage of the name "ZT"
\* returned nil: the name is admitted by the lower-case wildcard pattern
\* only, and only when case is ignored.
C12_Witness ==
    /\ safety.AllowedPackages = << <<"$", "T", "M", "P">>, <<"z", "*">> >>
    /\ ret.op = "CheckPackage"
    /\ ret.arg = << <<"Z", "T">> >>
    /\ ret.kind = "ok"

(***************************************************************************)
(* Properties of the deployment plan (checked under PlanSpec)              *)
(***************************************************************************)
\* C18: in every plan CreateDeploymentPlan produces, whatever source and
\* metadata files each object has, the objects appear in non-decreasing type
\* priority (INTF < DOMA < DTEL < TABL < DDLS < CLAS < PROG < FUGR < FUNC <
\* BDEF < SRVD < SRVB < other) and objects of the same type in ascending
\* name order.
C18_PlanOrderedByTypeThenName ==
    ret.op = "CreateDeploymentPlan" =>
        \A i, j \in DOMAIN ret.arg.objects :
            i < j =>
                LET a == ret.arg.objects[i]
                    b == ret.arg.objects[j]
                IN  /\ TypePriority(a.Type) <= TypePriority(b.Type)
                    /\ a.Type = b.Type => StringLess(a.Name, b.Name)

(***************************************************************************)
(* Properties of the iterative activation (checked under ActivateFairSpec) *)
(***************************************************************************)
\* The iteration of the call, and whether the call has returned its result.
Iteration == ret.arg.it

ActivationReturned == ret.op = "ActivatePackageIterative" /\ ret.kind = "ok"

\* The stop rule on the iteration it with limit n: after fewer than n passes
\* the iteration has stopped exactly when the still-inactive set is empty
\* or is the one the pass before left.
StopRule(it, n, stopped) ==
    /\ it.passes <= n
    /\ it.passes = Len(requests)
    /\ (it.passes > 0 /\ it.passes < n) =>
          (stopped <=> \/ it.inactive = 0
                       \/ it.passes >= 2 /\ it.inactive = it.prev)
    /\ it.passes = n => stopped
    /\ it.passes = 0 => ~stopped

ActivateReturned == ret.op = "Activate" /\ ret.kind = "ok"

\* The response has a message of severity E, A or X.
HasErrorMessage(data) == \E i \in DOMAIN data.msgs : data.msgs[i] \in {<<"E">>, <<"A">>, <<"X">>}

\* The response lists a still-inactive object.
ListsInactiveObject(data) == \E i \in DOMAIN data.entries : data.entries[i] # Nil

\* C20 as stated: Activation reports success if and only if the response
\* has no message of severity E, A or X and lists no still-inactive object;
\* an empty response yields success with no messages.
C20_SuccessIffNoErrorAndNoneInactive ==
    ActivateReturned =>
        /\ ret.arg.result.Success <=>
              (~HasErrorMessage(ret.arg.data) /\ ~ListsInactiveObject(ret.arg.data))
        /\ ret.arg.data.kind = "empty" =>
              (ret.arg.result.Success /\ ret.arg.result.Messages = <<>>)

\* C20 amended: for a response that is empty or is parsed as XML,
\* Activation reports success if and only if the response has no message
\* of severity E, A or X and lists no still-inactive object; an empty
\* response yields success with no messages; a non-empty response that is
\* not parsed as XML yields success=false with one message of severity E.
C20_SuccessIffParsedWithoutErrorAndNoneInactive ==
    ActivateReturned =>
        /\ ret.arg.data.kind # "text" =>
              (ret.arg.result.Success <=>
                 (~HasErrorMessage(ret.arg.data) /\ ~ListsInactiveObject(ret.arg.data)))
        /\ ret.arg.data.kind = "empty" =>
              (ret.arg.result.Success /\ ret.arg.result.Messages = <<>>)
        /\ ret.arg.data.kind = "text" =>
              (~ret.arg.result.Success /\ ret.arg.result.Messages = << <<"E">> >>)

\* C20 witness: a parsed response with a warning only and one still-inactive
\* object was reported as a failure that lists the object.
C20_Witness ==
    /\ ActivateReturned
    /\ ret.arg.data.kind = "xml"
    /\ ret.arg.data.msgs = << <<"W">> >>
    /\ Len(ret.arg.result.Inactive) = 1
    /\ ~ret.arg.result.Success

(***************************************************************************)
(* Properties of the unlock after the upload (checked under WorkflowSpec)  *)
(***************************************************************************)
\* Request i is an Unlock that failed right after a PUT that succeeded: the
\* explicit UnlockObject of a workflow, answered with an error.
UnlockFailedAfterPut(i) ==
    /\ i > 1
    /\ requests[i].op = "Unlock"
    /\ ~requests[i].ok
    /\ requests[i - 1].op \in {"UpdateSource", "UpdateClassInclude"}
    /\ requests[i - 1].ok

\* C21: in every workflow, when the source PUT succeeded and the following
\* Unlock request fails, the workflow is not stopped before activation and
\* the unlock error alone does not make the result unsuccessful: a workflow
\* that returned after such an Unlock has issued Activate, and its result
\* is successful when the activation succeeded.
C21_UnlockFailureIsNonFatal ==
    pc = "done" =>
        \A i \in DOMAIN requests :
            UnlockFailedAfterPut(i) =>
                /\ \E j \in DOMAIN requests : j > i /\ requests[j].op = "Activate"
                /\ result.Activation = "Success" => result.Success

(***************************************************************************)
(* Properties of CreateClassWithTests (checked under WorkflowSpec)         *)
(***************************************************************************)
\* The requests of CreateClassWithTests, in the order of its steps.
ClassWithTestsSteps ==
    <<"CreateObject", "Lock", "UpdateSource", "CreateTestInclude",
      "UpdateClassInclude", "Unlock", "Activate", "RunUnitTests">>

\* A run of CreateClassWithTests has returned and no request was answered
\* with an error.
ClassWithTestsReturnedNoError ==
    /\ wf = "CreateClassWithTests"
    /\ pc = "done"
    /\ \A i \in DOMAIN requests : requests[i].ok

\* The requests of the run are the eight steps, each once, in order, and the
\* result is successful with the unit-test report attached.
AllStepsInOrderWithReport ==
    /\ [i \in DOMAIN requests |-> requests[i].op] = ClassWithTestsSteps
    /\ result.Success
    /\ result.UnitTestResult = "report"

StepsNeededForSuccess ==
    {"Lock", "UpdateSource", "CreateTestInclude", "UpdateClassInclude", "Unlock",
     "Activate"}

\* C37: whenever the result of a workflow has success=true, the source PUT
\* succeeded, the lock was released by a successful Unlock, and the
\* activation reported success; no lock, PUT, unlock or activation request
\* of the run has failed.
C37_SuccessOnlyAfterAllSteps ==
    result.Success =>
        /\ \E i \in DOMAIN requests :
              requests[i].op = "UpdateSource" /\ requests[i].ok
        /\ \E i \in DOMAIN requests :
              requests[i].op = "Unlock" /\ requests[i].ok
        /\ result.Activation = "Success"
        /\ \A i \in DOMAIN requests :
              requests[i].op \in StepsNeededForSuccess => requests[i].ok
        /\ ~server.locked
        /\ server.source = "new"

\* C37 witness: CreateClassWithTests has returned success=true after an
\* activation that succeeded and a unit test run that failed.
C37_Witness ==
    /\ wf = "CreateClassWithTests"
    /\ pc = "done"
    /\ result.Success
    /\ result.UnitTestResult = "nil"
    /\ requests[Len(requests)] = [op |-> "RunUnitTests", handle |-> "", ok |-> FALSE]

(***************************************************************************)
(* Properties of Connect (checked under ConnectSpec)                       *)
(***************************************************************************)
\* C26: Connect succeeds only if the welcome message arrives within 5 s of
\* the handshake: a Connect that returned nil has had the welcome read on
\* the connection it dialed; a Connect that returned because of the timeout
\* or the cancelled context has closed that connection and left the client
\* disconnected.
C26_ConnectOnlyAfterWelcome ==
    ws.connect.pc = "returned" =>
        /\ ws.connect.err = Nil => ws.connect.conn \in ws.welcomed
        /\ ws.connect.err \in {"timeout waiting for welcome message", "context canceled"} =>
              (ws.connect.conn \in ws.closed /\ ~IsConnected)

\* C38: Connect returns success only after the welcome of the connection it
\* has just opened was received; a signal left in welcomeCh by an earlier
\* connection never makes it return success before its own welcome.
C38_NoSuccessOnStaleWelcome ==
    (ws.connect.pc = "returned" /\ ws.connect.err = Nil /\ ws.connect.conn # NilConn)
    => ws.connect.conn \in ws.welcomed

\* C33: Connect releases the client's mutex on every return path: when
\* Connect has returned, with or without an error, c.mu is free, so that a
\* later Connect, Close, IsConnected, IsActive or sendRequest can take it.
C33_ConnectReleasesMutex ==
    ws.connect.pc = "returned" => ~ws.mu

(***************************************************************************)
(* Properties of the requests on a session (checked under SessionSpec,     *)
(* the liveness under SessionFairSpec)                                     *)
(***************************************************************************)
\* The goroutine is inside a request that has its id.
InFlight(r) == ws.callers[r].pc \in {"send", "writing", "wait"}

\* C23: the id of a request stays in the pending table until a terminal
\* message (complete, error) for it arrives or the request times out or is
\* cancelled: a request in flight whose channel has received no terminal
\* message still has its id in the table; a progress or chunk message for
\* the id does not remove the entry.
C23_PendingUntilTerminal ==
    \A r \in Callers :
        (/\ InFlight(r)
         /\ \A i \in DOMAIN ws.callers[r].respCh :
               ws.callers[r].respCh[i].type \notin TerminalTypes)
        => ws.callers[r].id \in ws.pending

C25_EveryRequestReturns ==
    \A r \in Callers :
        (ws.callers[r].pc = "entry") ~> (ws.callers[r].pc = "returned")

\* C28: no two requests in flight share an id, and a reply is delivered
\* only to the goroutine whose request has the id of the reply, whatever
\* the order in which the replies arrive.
C28_RepliesPairedById ==
    /\ \A r1, r2 \in Callers :
          (r1 # r2 /\ InFlight(r1) /\ InFlight(r2)) =>
              ws.callers[r1].id # ws.callers[r2].id
    /\ \A r \in Callers :
          /\ \A i \in DOMAIN ws.callers[r].respCh :
                ws.callers[r].respCh[i].ID = ws.callers[r].id
          /\ ws.callers[r].resp # NoResponse =>
                ws.callers[r].resp.ID = ws.callers[r].id
          /\ InFlight(r) => ws.callers[r].id # NoID

\* C28 witness: of two requests in flight, one of each domain, the one
\* with the later id has returned with its reply while the earlier one
\* still waits: the replies arrive in the other order than the requests.
C28_Witness ==
    \E r1, r2 \in Callers :
        /\ ws.callers[r1].id = Sprintf("amdp", 1)
        /\ ws.callers[r1].pc = "wait"
        /\ ws.callers[r1].respCh = <<>>
        /\ ws.callers[r2].id = Sprintf("report", 2)
        /\ ws.callers[r2].pc = "returned"
        /\ ws.callers[r2].resp = WSResponse(Sprintf("report", 2), "complete")

\* C32: the writes to the connection are serialized: no two goroutines are
\* inside WriteMessage on the same connection at the same time.
C32_WritesSerialized ==
    \A r1, r2 \in Callers :
        (/\ r1 # r2
         /\ ws.callers[r1].pc = "writing"
         /\ ws.callers[r2].pc = "writing")
        => ws.callers[r1].conn # ws.callers[r2].conn

\* C35: sendReportRequest never uses a cleared connection: when c.conn has
\* become nil between the connectivity check and the write, the call
\* returns an error; no goroutine ends in the panic of a call on nil.
C35_NoWriteOnNilConnection ==
    \A r \in Callers : ws.callers[r].pc # "panicked"

\* make(chan *WSResponse, 1): what a reply channel holds without blocking
\* the sender.
ReplyChannelCap == 1

\* C39: the reader never blocks while delivering a reply: a reply channel
\* never holds more than its capacity of one message, and once it holds a
\* message its id is no longer in the pending table, so no second message
\* is sent to it, whether or not its goroutine still waits.
C39_ReaderNeverBlocksOnReply ==
    \A r \in Callers :
        /\ Len(ws.callers[r].respCh) <= ReplyChannelCap
        /\ ws.callers[r].respCh # <<>> => ws.callers[r].id \notin ws.pending

\* C39 witness: one goroutine has returned on its timeout without a reply,
\* and a reply for the other goroutine's request has been delivered to its
\* channel.
C39_Witness ==
    \E r1, r2 \in Callers :
        /\ ws.callers[r1].pc = "returned"
        /\ ws.callers[r1].err = "timeout"
        /\ ws.callers[r1].id = Sprintf("amdp", 1)
        /\ ws.callers[r2].pc = "wait"
        /\ ws.callers[r2].respCh = <<WSResponse(Sprintf("report", 2), "complete")>>

(***************************************************************************)
(* Properties of the reader (checked under ConnectSpec)                    *)
(***************************************************************************)
\* C34: the reader goroutine of an earlier connection never changes the
\* state of a later connection: a reader that leaves on a read failure
\* while the client holds a connection, and so sets the client back to
\* disconnected, was reading that same connection.
C34_StaleReaderLeavesConnection ==
    [][\A g \in Conns :
          (ws.rpc[g] = "read" /\ ws'.rpc[g] = "exited" /\ ws.conn # NilConn)
          => (ws.rconn[g] = ws.conn)]_vars

\* C27: a message read whose id is not in the pending table and that is a
\* debugger event (on_break, on_toggle_breakpoints, on_execution_end) is
\* delivered on the Events channel: the event read last is the last one
\* put into Events.
C27_EventsDelivered ==
    ws.lastEvent # "none" =>
        /\ ws.Events # <<>>
        /\ ws.Events[Len(ws.Events)] = ws.lastEvent

(***************************************************************************)
(* Properties of the streamed export (checked under StreamSpec)            *)
(***************************************************************************)
\* The call has ended on a complete message.
StreamCompleted ==
    ret.op = "GitExportStreaming" /\ ret.kind \in {"ok", "stream-incomplete"}

\* C29: for a streamed call whose complete message reports N chunks, the
\* call returns a payload - the concatenation of the chunks in seq order
\* 1..N - if and only if the set of seq values received is exactly {1..N};
\* in every other case it ends with stream-incomplete.
C29_PayloadIffAllChunksReceived ==
    StreamCompleted =>
        IF DOMAIN ret.arg.chunks = 1..ret.arg.totalChunks
        THEN /\ ret.kind = "ok"
             /\ Len(ret.arg.ZipBase64) = ret.arg.totalChunks
             /\ \A i \in 1..ret.arg.totalChunks :
                   ret.arg.ZipBase64[i] = ret.arg.chunks[i][1]
        ELSE ret.kind = "stream-incomplete"

(***************************************************************************)
(* Properties of the tool handlers (checked under HandlerSpec)             *)
(***************************************************************************)
\* The argument was passed as a non-empty string.
ArgumentGiven(arg) == arg.ok /\ arg.s # ""

C31_FailedOperationIsErrorResult ==
    (ret.op = "handleWriteProgram" /\ ret.kind = "ok") => result.Success

(***************************************************************************)
(* Properties of the file parser (checked under ParseFairSpec)             *)
(***************************************************************************)
\* C40: ParseABAPFile terminates for every input file: a call of
\* ParseABAPFile is followed by its return, with a result or an error,
\* also for a file with the generic .abap extension whose content holds a
\* statement that parseFromContent detects.
C40_ParseABAPFileTerminates ==
    (parse.pc = "ParseABAPFile") ~> (parse.pc = "returned")

====
